---------------------------- MODULE Spec2Model ----------------------------
(***************************************************************************)
(* A model of the Medical Plan Cost Engine (mpceEngine.js) of wattjam/ppl, *)
(* and of its Flexible Spending Account Estimator (fsaeEngine.js), whose   *)
(* numbers are described where the estimator begins.                       *)
(*                                                                         *)
(* Representation.                                                         *)
(*  - Money is an integer number of cents.  The engine's                   *)
(*    Math.round(x * 100) / 100 is RoundCents, applied to a value held in  *)
(*    hundredths of a cent (the only place a sub-cent value arises is      *)
(*    costLeft * coinsurance); IEEE-754 representation error is not        *)
(*    modelled, arithmetic is exact.                                       *)
(*  - A coinsurance rate is an integer percentage (0.10 is 10).            *)
(*  - A JavaScript object is a function with a string domain; a property   *)
(*    that is absent is absent from the DOMAIN.  A number-valued slot may  *)
(*    also hold the values Undefined, NaN, Infinity and NegInfinity.       *)
(*  - A service count is an exact rational [n, d] (dollarLimit / cost      *)
(*    need not be whole).                                                  *)
(*  - An array of coverage objects is the record [array |-> <<...>>]; a    *)
(*    single coverage object is the record of its properties.              *)
(***************************************************************************)
EXTENDS Integers, Sequences, FiniteSets, TLC

\* ------------------------------------------------------------------------
\* JavaScript number values

Infinity == 2000000000
NegInfinity == -2000000000
NaN == -2000000001
Undefined == -2000000002
\* null where a number is expected (a premium that is not applicable).
NullAmount == -2000000003

IsFinite(x) == x > NegInfinity /\ x < Infinity

\* ToNumber(undefined) is NaN, ToNumber(null) is 0.
ToNum(x) == IF x = Undefined THEN NaN ELSE IF x = NullAmount THEN 0 ELSE x

\* a + b
JsAdd(a, b) ==
  LET x == ToNum(a)
      y == ToNum(b)
  IN  IF x = NaN \/ y = NaN THEN NaN
      ELSE IF x = Infinity THEN (IF y = NegInfinity THEN NaN ELSE Infinity)
      ELSE IF x = NegInfinity THEN (IF y = Infinity THEN NaN ELSE NegInfinity)
      ELSE IF y = Infinity \/ y = NegInfinity THEN y
      ELSE x + y

JsNeg(a) ==
  LET x == ToNum(a)
  IN  IF x = NaN THEN NaN
      ELSE IF x = Infinity THEN NegInfinity
      ELSE IF x = NegInfinity THEN Infinity
      ELSE 0 - x

\* a - b
JsSub(a, b) == JsAdd(a, JsNeg(b))

\* Math.min(a, b): NaN when either argument is NaN or undefined.
JsMin(a, b) ==
  LET x == ToNum(a)
      y == ToNum(b)
  IN  IF x = NaN \/ y = NaN THEN NaN ELSE IF x <= y THEN x ELSE y

\* Math.max(a, b)
JsMax(a, b) ==
  LET x == ToNum(a)
      y == ToNum(b)
  IN  IF x = NaN \/ y = NaN THEN NaN ELSE IF x >= y THEN x ELSE y

\* a > b: false when either side is NaN or undefined.
JsGt(a, b) ==
  LET x == ToNum(a)
      y == ToNum(b)
  IN  x # NaN /\ y # NaN /\ x > y

\* a >= b
JsGe(a, b) ==
  LET x == ToNum(a)
      y == ToNum(b)
  IN  x # NaN /\ y # NaN /\ x >= y

\* a || d for a number-valued a: undefined, null, NaN and 0 are falsy.
OrElse(a, d) ==
  IF a = Undefined \/ a = NullAmount \/ a = NaN \/ a = 0 THEN d ELSE a

\* Math.min3 of utility.js.
Min3(a, b, c) == JsMin(JsMin(a, b), c)

\* obj[k] for a number-valued property; undefined when the property is absent.
Get(obj, k) == IF k \in DOMAIN obj THEN obj[k] ELSE Undefined

\* obj[k] for a string-valued property ("undefined" when absent).
GetS(obj, k) == IF k \in DOMAIN obj THEN obj[k] ELSE "undefined"

\* Truthiness of obj[k] for a boolean-valued property.
GetB(obj, k) == k \in DOMAIN obj /\ obj[k]

\* obj[k] !== undefined, for an object-valued property.
Has(obj, k) == k \in DOMAIN obj

\* obj with property k set to v.
Put(obj, k, v) == [x \in (DOMAIN obj) \cup {k} |-> IF x = k THEN v ELSE obj[x]]

\* A value in cents held in hundredths of a cent.
Fine(x) == IF IsFinite(ToNum(x)) THEN 100 * x ELSE ToNum(x)

\* Math.round(x * 100) / 100 of a value x held in hundredths of a cent:
\* to the nearest cent, a half rounding up.
RoundCents(f) == IF IsFinite(f) THEN (f + 50) \div 100 ELSE f

\* ------------------------------------------------------------------------
\* Exact service counts

RECURSIVE Gcd(_, _)
Gcd(a, b) == IF b = 0 THEN a ELSE Gcd(b, a % b)

Abs(a) == IF a < 0 THEN 0 - a ELSE a

Rat(n, d) ==
  LET g == Gcd(Abs(n), Abs(d))
  IN  IF g = 0 THEN [n |-> 0, d |-> 1] ELSE [n |-> n \div g, d |-> d \div g]

Whole(c) == Rat(c, 1)
RatLe(a, b) == a.n * b.d <= b.n * a.d
RatGt(a, b) == a.n * b.d > b.n * a.d
RatMin(a, b) == IF RatLe(a, b) THEN a ELSE b
RatMax(a, b) == IF RatLe(a, b) THEN b ELSE a
RatSub(a, b) == Rat(a.n * b.d - b.n * a.d, a.d * b.d)
RatAdd(a, b) == Rat(a.n * b.d + b.n * a.d, a.d * b.d)
\* count * cost, in cents; whole whenever the count is a whole number or a
\* multiple of 1 / cost, which is all calculateService produces.
RatTimes(a, cost) == (a.n * cost) \div a.d


\* ------------------------------------------------------------------------
\* Bounds of the model

\* The largest count of one service in one person's services object.
MaxCount == 2
\* The largest number of service units over a whole household.
MaxUnits == 2
\* The largest number of children in a household.
MaxChildren == 1
\* The largest number of calculate() calls made on one configuration object.
MaxCalls == 3
\* Scenario S6: the largest number of fills of the drug service by one
\* person (20 copays of 50 reach the person's oopmax_rx of 1000), and the
\* number of inpatient stays (8 copays of 250 reach the person's general
\* out-of-pocket maximum of 2000).
S6Fills == 21
S6Stays == 8

\* ------------------------------------------------------------------------
\* Configurations (mpceConfig.js)

\* this.coverageLevels of the published configuration.
PublishedCoverageLevels ==
  [ employeeOnly        |-> [spouse |-> FALSE, maxNumChildren |-> 0],
    employeeAndSpouse   |-> [spouse |-> TRUE,  maxNumChildren |-> 0],
    employeeAndChild    |-> [spouse |-> FALSE, maxNumChildren |-> 1],
    employeeAndChildren |-> [spouse |-> FALSE, maxNumChildren |-> Infinity],
    employeeAndFamily   |-> [spouse |-> TRUE,  maxNumChildren |-> Infinity] ]

\* this.coverageLevelsOrder of the published configuration.
PublishedCoverageLevelsOrder ==
  << "employeeOnly", "employeeAndSpouse", "employeeAndChild",
     "employeeAndChildren", "employeeAndFamily" >>

\* An object mapping every coverage level id to the same amount.
AllLevels(a) == [l \in DOMAIN PublishedCoverageLevels |-> a]

\* The published configuration, cut down to region AZ and to four of its
\* thirteen services; amounts in cents, rates in percent.
PublishedConfig ==
  [ regions |-> [ AZ |-> [plans |-> << "PPO_300", "CDHP", "HMO_AZ" >>] ],
    plansOrder |-> << "PPO_300", "CDHP", "HMO_AZ" >>,
    plans |->
      [ PPO_300 |->
          [ personDeductibles |-> [general |-> [amount |-> 30000]],
            familyDeductibles |-> [general |-> [amount |-> 90000]],
            personOutOfPocketMaximums |-> [general |-> [amount |-> 230000]],
            familyOutOfPocketMaximums |-> [general |-> [amount |-> 490000]] ],
        CDHP |->
          [ familyDeductibles |->
              [general |-> [amountMap |->
                [ employeeOnly |-> 150000, employeeAndSpouse |-> 300000,
                  employeeAndChild |-> 300000, employeeAndChildren |-> 300000,
                  employeeAndFamily |-> 300000 ]]],
            familyOutOfPocketMaximums |->
              [general |-> [amountMap |->
                [ employeeOnly |-> 350000, employeeAndSpouse |-> 700000,
                  employeeAndChild |-> 700000, employeeAndChildren |-> 700000,
                  employeeAndFamily |-> 700000 ]]],
            fundAmountMap |->
              [ employeeOnly |-> 45000, employeeAndSpouse |-> 90000,
                employeeAndChild |-> 90000, employeeAndChildren |-> 90000,
                employeeAndFamily |-> 90000 ],
            categoriesFundAppliesTo |->
              [outpatient |-> TRUE, inpatient |-> TRUE, drugs |-> TRUE],
            fundAllowsContributions |-> TRUE ],
        HMO_AZ |->
          [ personDeductibles |-> [general |-> [amount |-> 0]],
            familyDeductibles |-> [general |-> [amount |-> 0]],
            personOutOfPocketMaximums |->
              [ general |-> [amount |-> 200000],
                oopmax_rx |-> [categories |-> << "drugs" >>, amount |-> 100000] ],
            familyOutOfPocketMaximums |->
              [ general |-> [amount |-> 400000],
                oopmax_rx |-> [categories |-> << "drugs" >>, amount |-> 200000] ] ] ],
    statuses |-> [fullTime |-> [description |-> "Full-time"]],
    coverageLevels |-> PublishedCoverageLevels,
    coverageLevelsOrder |-> PublishedCoverageLevelsOrder,
    coverageLevelCostsPerPlan |->
      [ PPO_300 |->
          [ employeeOnly |-> [fullTime |-> 124800],
            employeeAndSpouse |-> [fullTime |-> 423800],
            employeeAndChild |-> [fullTime |-> 358800],
            employeeAndChildren |-> [fullTime |-> 358800],
            employeeAndFamily |-> [fullTime |-> 600600] ],
        CDHP |->
          [ employeeOnly |-> [fullTime |-> 101400],
            employeeAndSpouse |-> [fullTime |-> 319800],
            employeeAndChild |-> [fullTime |-> 299000],
            employeeAndChildren |-> [fullTime |-> 299000],
            employeeAndFamily |-> [fullTime |-> 413400] ],
        HMO_AZ |->
          [ employeeOnly |-> [fullTime |-> 127400],
            employeeAndSpouse |-> [fullTime |-> 452400],
            employeeAndChild |-> [fullTime |-> 382200],
            employeeAndChildren |-> [fullTime |-> 382200],
            employeeAndFamily |-> [fullTime |-> 647400] ] ],
    services |->
      [ primaryCarePhysician |->
          [ costs |-> [AZ |-> 13578],
            coverage |->
              [ PPO_300 |-> [copay |-> 2000, deductible |-> "none"],
                CDHP |-> [coinsurance |-> 10],
                HMO_AZ |-> [copay |-> 2000, deductible |-> "none"] ] ],
        emergencyRoomVisit |->
          [ costs |-> [AZ |-> 164096],
            coverage |->
              [ PPO_300 |-> [copay |-> 10000, deductible |-> "afterCopay",
                             coinsurance |-> 10],
                CDHP |-> [coinsurance |-> 10],
                HMO_AZ |-> [copay |-> 10000, deductible |-> "none"] ] ],
        other2DayInpatientFacCharges |->
          [ costs |-> [AZ |-> 1212272],
            coverage |->
              [ PPO_300 |-> [copay |-> 25000, deductible |-> "none",
                             coinsurance |-> 10],
                CDHP |-> [coinsurance |-> 10],
                HMO_AZ |-> [copay |-> 25000, deductible |-> "none"] ] ],
        drugsMailPref90DaySupply |->
          [ costs |-> [AZ |-> 62351],
            coverage |->
              [ PPO_300 |-> [copay |-> 5000, deductible |-> "none"],
                CDHP |-> [coinsurance |-> 10],
                HMO_AZ |-> [copay |-> 5000, deductible |-> "none"] ] ] ],
    combinedLimits |-> << >>,
    categories |->
      [ outpatient |-> [orderedContents |->
                          << "primaryCarePhysician", "emergencyRoomVisit" >>],
        inpatient |-> [orderedContents |-> << "other2DayInpatientFacCharges" >>],
        drugs |-> [orderedContents |-> << "drugsMailPref90DaySupply" >>] ],
    categoriesOrder |-> << "outpatient", "inpatient", "drugs" >> ]


\* A small configuration the validator accepts, in several variants.  One
\* plan "P"; services "visit" and "surgery" (category outpatient) and "rx"
\* (category drugs).  The variants exercise, beyond the published data, the
\* features mpceConfig.js documents: out-of-pocket groups, amountMaps keyed
\* by region or status, arrays of coverage objects, coveredCount,
\* dollarLimit, combined limits, singleUseCostMax, the coinsurance dollar
\* bounds and a plan fund.
LabVariants ==
  { "base", "keyed", "array", "combined", "misc", "fundGap", "couples",
    "limits" }

\* The coverage levels of a variant: those of the published configuration,
\* or (couples) the two levels without children.
LabCoverageLevelsOrder(v) ==
  IF v = "couples" THEN << "employeeOnly", "employeeAndSpouse" >>
  ELSE PublishedCoverageLevelsOrder

LabCoverageLevels(v) ==
  [l \in {LabCoverageLevelsOrder(v)[i] :
            i \in 1..Len(LabCoverageLevelsOrder(v))} |->
     PublishedCoverageLevels[l]]

LabRegions(v) ==
  IF v = "keyed"
    THEN [ AZ |-> [plans |-> << "P" >>], CA |-> [plans |-> << "P" >>] ]
    ELSE [ AZ |-> [plans |-> << "P" >>] ]

LabPlan(v) ==
  [ personDeductibles |->
      [ general |->
          IF v = "keyed" THEN [amountMap |-> [fullTime |-> AllLevels(300)]]
                         ELSE [amount |-> 300] ],
    familyDeductibles |->
      [ general |->
          IF v = "keyed"
            THEN [amountMap |->
                   [ employeeOnly |-> 300, employeeAndSpouse |-> 500,
                     employeeAndChild |-> 500, employeeAndChildren |-> 500,
                     employeeAndFamily |-> 500 ]]
            ELSE [amount |-> 500] ],
    personOutOfPocketMaximums |->
      [ general |->
          IF v = "keyed"
            THEN [amountMap |-> [AZ |-> AllLevels(600), CA |-> AllLevels(700)]]
            ELSE [amount |-> 600],
        oop_rx |-> [categories |-> << "drugs" >>, amount |-> 200] ],
    familyOutOfPocketMaximums |->
      [ general |->
          IF v = "keyed"
            THEN [amountMap |-> [AZ |-> AllLevels(1000), CA |-> AllLevels(1100)]]
            ELSE [amount |-> 1000],
        oop_rx |-> [categories |-> << "drugs" >>, amount |-> 300] ],
    fundAmountMap |->
      IF v = "fundGap" THEN [employeeOnly |-> 120]
      ELSE IF v = "couples" THEN [l \in DOMAIN LabCoverageLevels(v) |-> 120]
      ELSE IF v = "keyed" THEN [AZ |-> AllLevels(120), CA |-> AllLevels(90)]
      ELSE AllLevels(120),
    categoriesFundAppliesTo |-> [outpatient |-> TRUE, drugs |-> FALSE] ]

LabCoverage(v, serviceId) ==
  CASE serviceId = "visit" ->
         IF v = "array"
           THEN [array |-> << [copay |-> 60, deductible |-> "none"],
                              [copay |-> 60, deductible |-> "none"] >>]
         ELSE IF v = "combined"
           THEN [copay |-> 30, deductible |-> "none", combinedLimitId |-> "cl"]
         ELSE IF v = "misc"
           THEN [deductible |-> "beforeCopay", copay |-> 30,
                 singleUseCostMax |-> 80]
         ELSE IF v = "limits"
           THEN [copay |-> 30, deductible |-> "none", singleUseCostMax |-> 0]
         ELSE [copay |-> 30, deductible |-> "none"]
    [] serviceId = "surgery" ->
         IF v = "array"
           THEN [array |-> << [copay |-> 50, deductible |-> "none",
                               coveredCount |-> 1],
                              [coinsurance |-> 50, deductible |-> "none"] >>]
         ELSE IF v = "combined"
           THEN [coinsurance |-> 20, deductible |-> "none",
                 combinedLimitId |-> "cl"]
         ELSE IF v = "limits"
           THEN [array |-> << [coinsurance |-> 20, deductible |-> "none",
                               combinedLimitId |-> "cl", coveredCount |-> 1],
                              [copay |-> 50, deductible |-> "none"] >>]
         ELSE IF v = "misc"
           THEN [coinsurance |-> 10, coinsuranceMinDollar |-> 60,
                 coinsuranceMaxDollar |-> 90,
                 coinsuranceNotTowardsOOPMax |-> TRUE]
         ELSE [copay |-> 50, coinsurance |-> 10]
    [] OTHER ->
         IF v = "array"
           THEN [array |-> << [coinsurance |-> 20, deductible |-> "none",
                               dollarLimit |-> 200],
                              [notCovered |-> TRUE] >>]
         ELSE IF v = "misc"
           THEN [copay |-> 40, deductible |-> "none",
                 copayNotTowardsOOPMax |-> TRUE]
         ELSE [coinsurance |-> 20]

LabCosts(v, serviceId) ==
  LET az == CASE serviceId = "visit" -> 100
              [] serviceId = "surgery" -> 400
              [] OTHER -> 150
  IN  IF v = "keyed" THEN [AZ |-> az, CA |-> az + 20] ELSE [AZ |-> az]

LabConfig(v) ==
  [ regions |-> LabRegions(v),
    plansOrder |-> << "P" >>,
    plans |-> [P |-> LabPlan(v)],
    statuses |-> [fullTime |-> [description |-> "Full-time"]],
    coverageLevels |-> LabCoverageLevels(v),
    coverageLevelsOrder |-> LabCoverageLevelsOrder(v),
    coverageLevelCostsPerPlan |->
      [P |-> IF v = "couples"
               THEN [l \in DOMAIN LabCoverageLevels(v) |->
                       [fullTime |-> IF l = "employeeAndSpouse"
                                       THEN NullAmount ELSE 1000]]
             ELSE IF v = "keyed"
               THEN [l \in (DOMAIN PublishedCoverageLevels) \cup {"AZ"} |->
                       IF l = "AZ" THEN AllLevels([fullTime |-> 900])
                                   ELSE [fullTime |-> 1000]]
               ELSE AllLevels([fullTime |-> 1000])],
    services |->
      [s \in {"visit", "surgery", "rx"} |->
         [costs |-> LabCosts(v, s), coverage |-> [P |-> LabCoverage(v, s)]]],
    combinedLimits |->
      IF v = "combined" \/ v = "limits"
        THEN [cl |-> [personReimburseLimit |-> 250, familyReimburseLimit |-> 400]]
        ELSE << >>,
    categories |->
      [ outpatient |-> [orderedContents |-> << "visit", "surgery" >>],
        drugs |-> [orderedContents |-> << "rx" >>] ],
    categoriesOrder |-> << "outpatient", "drugs" >> ]

\* The ids of a set in a sequence, each once.
RECURSIVE SeqOf(_)
SeqOf(S) ==
  IF S = {} THEN << >>
  ELSE LET x == CHOOSE y \in S : TRUE IN << x >> \o SeqOf(S \ {x})

\* Every object of the mapping with a description (the display text, which
\* the engine does not read; the id stands for the text).
Described(objects) ==
  [id \in DOMAIN objects |-> Put(objects[id], "description", id)]

\* The configuration with what mpceConfig.js holds for display only: the
\* descriptions, regionsOrder, statusesOrder, and one health status.
WithDisplayData(c) ==
  [ regions |-> Described(c.regions),
    regionsOrder |-> SeqOf(DOMAIN c.regions),
    plans |-> Described(c.plans),
    plansOrder |-> c.plansOrder,
    statuses |-> Described(c.statuses),
    statusesOrder |-> SeqOf(DOMAIN c.statuses),
    coverageLevels |-> Described(c.coverageLevels),
    coverageLevelsOrder |-> c.coverageLevelsOrder,
    coverageLevelCostsPerPlan |-> c.coverageLevelCostsPerPlan,
    services |-> Described(c.services),
    combinedLimits |-> Described(c.combinedLimits),
    categories |-> Described(c.categories),
    categoriesOrder |-> c.categoriesOrder,
    healthStatuses |->
      [ low |-> [ description |-> "Low",
                  contents |-> [s \in {c.categories[c.categoriesOrder[1]]
                                         .orderedContents[1]} |-> 1] ] ],
    healthStatusesOrder |-> << "low" >> ]

\* The configurations a behaviour may start from.
Configs ==
  {WithDisplayData(PublishedConfig)}
  \cup {WithDisplayData(LabConfig(v)) : v \in LabVariants}

\* ------------------------------------------------------------------------
\* maybeMarkupConfig

\* isArray(planCoverage) and the elements of the array a plan coverage is
\* or is wrapped into.
IsArray(planCoverage) == "array" \in DOMAIN planCoverage
RulesOf(planCoverage) ==
  IF IsArray(planCoverage) THEN planCoverage.array ELSE << planCoverage >>

\* hasDeductible decided by the first coverage object of the array alone.
HasDeductibleOfFirstRule(rules) == GetS(rules[1], "deductible") # "none"

\* hasDeductible of one plan coverage array.
HasDeductible(rules) ==
  \E k \in 1..Len(rules) : GetS(rules[k], "deductible") # "none"

\* Markup (3): eligibleForFund of one coverage object.
MarkupRule(config, planId, categoryId, rule) ==
  IF Has(rule, "eligibleForFund") THEN rule
  ELSE Put(rule, "eligibleForFund",
           IF Has(config.plans[planId], "categoriesFundAppliesTo")
             THEN GetB(config.plans[planId].categoriesFundAppliesTo, categoryId)
             ELSE FALSE)

\* The body of the loop over a category's orderedContents: markups (1) to
\* (4) for one service.
MarkupService(config, categoryId, serviceId) ==
  LET service == config.services[serviceId]
      planIds == DOMAIN service.coverage
      coverage ==
        [p \in planIds |->
           LET rules == RulesOf(service.coverage[p])
           IN  [array |-> [k \in 1..Len(rules) |->
                             MarkupRule(config, p, categoryId, rules[k])]]]
      marked == Put([service EXCEPT !.coverage = coverage],
                    "categoryId", categoryId)
      withList == config.servicesWithDeductibleOrderByPlan
      noList == config.servicesNoDeductibleOrderByPlan
  IN  [config EXCEPT
         !.services[serviceId] = marked,
         !.servicesWithDeductibleOrderByPlan =
            [p \in DOMAIN withList |->
               IF p \in planIds /\ HasDeductible(coverage[p].array)
                 THEN Append(withList[p], serviceId) ELSE withList[p]],
         !.servicesNoDeductibleOrderByPlan =
            [p \in DOMAIN noList |->
               IF p \in planIds /\ ~HasDeductible(coverage[p].array)
                 THEN Append(noList[p], serviceId) ELSE noList[p]]]

\* The two nested loops over categoriesOrder and orderedContents, from
\* category i, service j on.
RECURSIVE MarkupServices(_, _, _)
MarkupServices(config, i, j) ==
  IF i > Len(config.categoriesOrder) THEN config
  ELSE LET categoryId == config.categoriesOrder[i]
           orderedContents == config.categories[categoryId].orderedContents
       IN  IF j > Len(orderedContents) THEN MarkupServices(config, i + 1, 1)
           ELSE MarkupServices(
                  MarkupService(config, categoryId, orderedContents[j]), i, j + 1)

\* The map without the custom groups: every category of categoriesOrder
\* maps to "general".
CategoryToGroupMapGeneralOnly(config, plan, limitObjectName) ==
  IF ~Has(plan, limitObjectName) THEN << >>
  ELSE [c \in {config.categoriesOrder[j] :
                 j \in 1..Len(config.categoriesOrder)} |-> "general"]

\* makeLimitObjectCategoryToGroupMap for one plan: every category maps to
\* "general", overridden by the custom group that lists it.  (A category
\* listed by two groups is rejected by the validator.)
CategoryToGroupMap(config, plan, limitObjectName) ==
  IF ~Has(plan, limitObjectName) THEN << >>
  ELSE LET limits == plan[limitObjectName]
           custom == (DOMAIN limits) \ {"general"}
           Lists(g, c) ==
             \E k \in 1..Len(limits[g].categories) : limits[g].categories[k] = c
           cats == {config.categoriesOrder[j] :
                      j \in 1..Len(config.categoriesOrder)}
                   \cup {c \in UNION {{limits[g].categories[k] :
                                         k \in 1..Len(limits[g].categories)} :
                                      g \in custom} : TRUE}
       IN  [c \in cats |->
              IF \E g \in custom : Lists(g, c)
                THEN CHOOSE g \in custom : Lists(g, c)
                ELSE "general"]

makeLimitObjectCategoryToGroupMap(config, mapName, limitObjectName) ==
  [config EXCEPT !.plans =
     [planId \in DOMAIN config.plans |->
        IF \E i \in 1..Len(config.plansOrder) : config.plansOrder[i] = planId
          THEN Put(config.plans[planId], mapName,
                   CategoryToGroupMap(config, config.plans[planId],
                                      limitObjectName))
          ELSE config.plans[planId]]]

\* The guard of maybeMarkupConfig lets the markup be performed ("performing
\* config markup" is traced).
MarkupPerformed(config) == ~GetB(config, "isMarkedUpAlready")

\* The markup without the initialisation of the two order lists when they
\* are there already: the services are pushed onto the lists of the last
\* markup.
maybeMarkupConfigKeepingLists(config) ==
  LET emptyLists == [i \in {config.plansOrder[i] :
                              i \in 1..Len(config.plansOrder)} |-> << >>]
      c0 == IF Has(config, "servicesWithDeductibleOrderByPlan") THEN config
            ELSE Put(Put(config, "servicesWithDeductibleOrderByPlan",
                         emptyLists),
                     "servicesNoDeductibleOrderByPlan", emptyLists)
  IN  Put(makeLimitObjectCategoryToGroupMap(
            makeLimitObjectCategoryToGroupMap(
              makeLimitObjectCategoryToGroupMap(
                makeLimitObjectCategoryToGroupMap(
                  MarkupServices(c0, 1, 1),
                  "personDeductibleCategoryToGroup", "personDeductibles"),
                "personOutOfPocketCategoryToGroup",
                "personOutOfPocketMaximums"),
              "familyDeductibleCategoryToGroup", "familyDeductibles"),
            "familyOutOfPocketCategoryToGroup", "familyOutOfPocketMaximums"),
          "isMarkedUp", TRUE)

\* maybeMarkupConfig.  The guard reads config.isMarkedUpAlready, the last
\* statement sets config.isMarkedUp.
maybeMarkupConfig(config) ==
  IF GetB(config, "isMarkedUpAlready") THEN config
  ELSE
    LET emptyLists == [i \in {config.plansOrder[i] :
                                i \in 1..Len(config.plansOrder)} |-> << >>]
        c0 == Put(Put(config, "servicesWithDeductibleOrderByPlan", emptyLists),
                  "servicesNoDeductibleOrderByPlan", emptyLists)
        c1 == MarkupServices(c0, 1, 1)
        c2 == makeLimitObjectCategoryToGroupMap(
                c1, "personDeductibleCategoryToGroup", "personDeductibles")
        c3 == makeLimitObjectCategoryToGroupMap(
                c2, "personOutOfPocketCategoryToGroup",
                "personOutOfPocketMaximums")
        c4 == makeLimitObjectCategoryToGroupMap(
                c3, "familyDeductibleCategoryToGroup", "familyDeductibles")
        c5 == makeLimitObjectCategoryToGroupMap(
                c4, "familyOutOfPocketCategoryToGroup",
                "familyOutOfPocketMaximums")
    IN  Put(c5, "isMarkedUp", TRUE)

\* ------------------------------------------------------------------------
\* determineCoverageLevel

RECURSIVE ScanCoverageLevelsStrict(_, _, _, _, _)
RECURSIVE ScanCoverageLevels(_, _, _, _, _)

\* The scan with maxNumChildren > numChildren in place of >=.
ScanCoverageLevelsStrict(coverageLevels, coverageLevelsOrder, hasSpouse, numChildren, i) ==
  IF i > Len(coverageLevelsOrder) THEN "null"
  ELSE LET coverageLevel == coverageLevels[coverageLevelsOrder[i]]
       IN  IF hasSpouse /\ ~coverageLevel.spouse
             THEN ScanCoverageLevelsStrict(coverageLevels, coverageLevelsOrder,
                                           hasSpouse, numChildren, i + 1)
           ELSE IF JsGt(coverageLevel.maxNumChildren, numChildren)
             THEN coverageLevelsOrder[i]
           ELSE ScanCoverageLevelsStrict(coverageLevels, coverageLevelsOrder,
                                         hasSpouse, numChildren, i + 1)

\* The scan of coverageLevelsOrder from index i: the first level that
\* covers the spouse when there is one and enough children; "null" when
\* the scan runs out (the caller then throws).
ScanCoverageLevels(coverageLevels, coverageLevelsOrder, hasSpouse, numChildren, i) ==
  IF i > Len(coverageLevelsOrder) THEN "null"
  ELSE LET coverageLevel == coverageLevels[coverageLevelsOrder[i]]
       IN  IF hasSpouse /\ ~coverageLevel.spouse
             THEN ScanCoverageLevels(coverageLevels, coverageLevelsOrder,
                                     hasSpouse, numChildren, i + 1)
           ELSE IF JsGe(coverageLevel.maxNumChildren, numChildren)
             THEN coverageLevelsOrder[i]
           ELSE ScanCoverageLevels(coverageLevels, coverageLevelsOrder,
                                   hasSpouse, numChildren, i + 1)

\* The absent spouse (null).
Null == [isNull |-> TRUE]
isNullOrUndefined(x) == x = Null

\* A value that is not an array (null, undefined, an object, a string), and
\* isArray.  The value is held as a one-element sequence with the null
\* marker, so that it can be compared with the arrays of people.
NotAnArray == << Null >>
isArray(value) == value # NotAnArray

determineCoverageLevel(config, spouse, childrenArray) ==
  ScanCoverageLevels(config.coverageLevels, config.coverageLevelsOrder,
                     ~isNullOrUndefined(spouse), Len(childrenArray), 1)

\* ------------------------------------------------------------------------
\* calculateSinglePlan: the budgets

\* amountMap[regionId][coverageLevelId], else
\* amountMap[statusId][coverageLevelId], else amountMap[coverageLevelId].
AmountMapLookup(amountMap, regionId, statusId, coverageLevelId) ==
  IF Has(amountMap, regionId) THEN Get(amountMap[regionId], coverageLevelId)
  ELSE IF Has(amountMap, statusId)
    THEN Get(amountMap[statusId], coverageLevelId)
  ELSE Get(amountMap, coverageLevelId)

\* xxxUsedByGroup of a limit object: zero for every group, nothing when the
\* plan has no such limit object.
UsedByGroup(plan, limitObjectName) ==
  IF Has(plan, limitObjectName)
    THEN [group \in DOMAIN plan[limitObjectName] |-> 0] ELSE << >>

\* dedsAvailableByGroup and oopsAvailableByGroup of the family and
\* dedsAvailableByGroup of a person.
AvailableByGroup(plan, limitObjectName, regionId, statusId, coverageLevelId) ==
  IF Has(plan, limitObjectName)
    THEN [group \in DOMAIN plan[limitObjectName] |->
            LET limit == plan[limitObjectName][group]
            IN  IF Has(limit, "amountMap")
                  THEN AmountMapLookup(limit.amountMap, regionId, statusId,
                                       coverageLevelId)
                  ELSE Get(limit, "amount")]
    ELSE << >>

\* oopsAvailableByGroup of a person: a group with an amountMap is assigned
\* only inside "if (amountMap[regionId] === undefined)", so a group whose
\* amountMap is keyed by the region is left without the property.
PersonOopsAvailableByGroup(plan, regionId, statusId, coverageLevelId) ==
  IF Has(plan, "personOutOfPocketMaximums")
    THEN LET limits == plan.personOutOfPocketMaximums
             assigned == {group \in DOMAIN limits :
                            Has(limits[group], "amountMap")
                              => ~Has(limits[group].amountMap, regionId)}
         IN  [group \in assigned |->
                LET limit == limits[group]
                IN  IF Has(limit, "amountMap")
                      THEN AmountMapLookup(limit.amountMap, regionId, statusId,
                                           coverageLevelId)
                      ELSE Get(limit, "amount")]
    ELSE << >>

\* combinedLimitsAvailable from the limits that define the given property
\* (personReimburseLimit or familyReimburseLimit).
CombinedLimitsAvailable(config, limitName) ==
  IF Has(config, "combinedLimits")
    THEN [id \in {c \in DOMAIN config.combinedLimits :
                    Has(config.combinedLimits[c], limitName)} |->
            config.combinedLimits[id][limitName]]
    ELSE << >>

NewFamilyAmounts(config, planId, regionId, statusId, coverageLevelId) ==
  LET plan == config.plans[planId]
      combined == CombinedLimitsAvailable(config, "familyReimburseLimit")
  IN  [ dedsUsedByGroup |-> UsedByGroup(plan, "familyDeductibles"),
        dedsAvailableByGroup |->
          AvailableByGroup(plan, "familyDeductibles", regionId, statusId,
                           coverageLevelId),
        oopsUsedByGroup |-> UsedByGroup(plan, "familyOutOfPocketMaximums"),
        oopsAvailableByGroup |->
          AvailableByGroup(plan, "familyOutOfPocketMaximums", regionId,
                           statusId, coverageLevelId),
        combinedLimitsUsed |-> [id \in DOMAIN combined |-> 0],
        combinedLimitsAvailable |-> combined ]

NewPersonAmounts(config, planId, regionId, statusId, coverageLevelId) ==
  LET plan == config.plans[planId]
      combined == CombinedLimitsAvailable(config, "personReimburseLimit")
  IN  [ totalDeductibles |-> 0,
        dedsUsedByGroup |-> UsedByGroup(plan, "personDeductibles"),
        dedsAvailableByGroup |->
          AvailableByGroup(plan, "personDeductibles", regionId, statusId,
                           coverageLevelId),
        oopsUsedByGroup |-> UsedByGroup(plan, "personOutOfPocketMaximums"),
        oopsAvailableByGroup |->
          PersonOopsAvailableByGroup(plan, regionId, statusId, coverageLevelId),
        combinedLimitsUsed |-> [id \in DOMAIN combined |-> 0],
        combinedLimitsAvailable |-> combined ]

\* ------------------------------------------------------------------------
\* calculateDeductible, calculateCopay, calculateCoinsurance

\* A category's group when the plan has no such limit object (undefined).
NoGroup == "undefined"

\* xxxAvailableByGroup[group] when there is a group, Infinity otherwise.
AvailableOrInfinity(availableByGroup, group) ==
  IF group # NoGroup THEN Get(availableByGroup, group) ELSE Infinity

\* dedsUsedByGroup[group] += x; dedsAvailableByGroup[group] -= x.
ChargeDeductible(amounts, group, x) ==
  IF group = NoGroup THEN amounts
  ELSE [amounts EXCEPT
          !.dedsUsedByGroup = Put(@, group, JsAdd(Get(@, group), x)),
          !.dedsAvailableByGroup = Put(@, group, JsSub(Get(@, group), x))]

\* oopsUsedByGroup[group] += x; oopsAvailableByGroup[group] -= x.
ChargeOutOfPocket(amounts, group, x) ==
  IF group = NoGroup THEN amounts
  ELSE [amounts EXCEPT
          !.oopsUsedByGroup = Put(@, group, JsAdd(Get(@, group), x)),
          !.oopsAvailableByGroup = Put(@, group, JsSub(Get(@, group), x))]

\* calculateDeductible with the person's deductible left out of the
\* minimum: only the cost and the family deductible bound the amount.
calculateDeductibleFamilyOnly(costLeft, singleUseCostMaxLeft, personAmounts, personDeductibleGroup, personOutOfPocketGroup, familyAmounts, familyDeductibleGroup, familyOutOfPocketGroup) ==
  LET deductible ==
        RoundCents(Fine(
          Min3(JsMin(costLeft, singleUseCostMaxLeft),
               Infinity,
               AvailableOrInfinity(familyAmounts.dedsAvailableByGroup,
                                   familyDeductibleGroup))))
      p0 == [personAmounts EXCEPT !.totalDeductibles = JsAdd(@, deductible)]
  IN  [ amount |-> deductible,
        person |-> ChargeOutOfPocket(
                     ChargeDeductible(p0, personDeductibleGroup, deductible),
                     personOutOfPocketGroup, deductible),
        family |-> ChargeOutOfPocket(
                     ChargeDeductible(familyAmounts, familyDeductibleGroup,
                                      deductible),
                     familyOutOfPocketGroup, deductible) ]

\* calculateDeductible: the amount and the adjusted person and family
\* amounts.
calculateDeductible(costLeft, singleUseCostMaxLeft, personAmounts, personDeductibleGroup, personOutOfPocketGroup, familyAmounts, familyDeductibleGroup, familyOutOfPocketGroup) ==
  LET deductible ==
        RoundCents(Fine(
          Min3(JsMin(costLeft, singleUseCostMaxLeft),
               AvailableOrInfinity(personAmounts.dedsAvailableByGroup,
                                   personDeductibleGroup),
               AvailableOrInfinity(familyAmounts.dedsAvailableByGroup,
                                   familyDeductibleGroup))))
      p0 == [personAmounts EXCEPT !.totalDeductibles = JsAdd(@, deductible)]
  IN  [ amount |-> deductible,
        person |-> ChargeOutOfPocket(
                     ChargeDeductible(p0, personDeductibleGroup, deductible),
                     personOutOfPocketGroup, deductible),
        family |-> ChargeOutOfPocket(
                     ChargeDeductible(familyAmounts, familyDeductibleGroup,
                                      deductible),
                     familyOutOfPocketGroup, deductible) ]

calculateCopay(costLeft, singleUseCostMaxLeft, nominalCopay, copayNotTowardsOOPMax, personAmounts, personOutOfPocketGroup, familyAmounts, familyOutOfPocketGroup) ==
  LET potential == Min3(costLeft, nominalCopay, singleUseCostMaxLeft)
      copay ==
        RoundCents(Fine(
          IF ~copayNotTowardsOOPMax
            THEN Min3(potential,
                      AvailableOrInfinity(personAmounts.oopsAvailableByGroup,
                                          personOutOfPocketGroup),
                      AvailableOrInfinity(familyAmounts.oopsAvailableByGroup,
                                          familyOutOfPocketGroup))
            ELSE potential))
  IN  [ amount |-> copay,
        person |-> IF ~copayNotTowardsOOPMax
                     THEN ChargeOutOfPocket(personAmounts,
                                            personOutOfPocketGroup, copay)
                     ELSE personAmounts,
        family |-> IF ~copayNotTowardsOOPMax
                     THEN ChargeOutOfPocket(familyAmounts,
                                            familyOutOfPocketGroup, copay)
                     ELSE familyAmounts ]

\* costLeft * nominalCoinsuranceRate, in hundredths of a cent.
TimesRate(costLeft, ratePercent) ==
  IF IsFinite(ToNum(costLeft)) THEN costLeft * ratePercent ELSE NaN

calculateCoinsurance(costLeft, singleUseCostMaxLeft, nominalCoinsuranceRate, coinsuranceMinDollar, coinsuranceMaxDollar, coinsuranceNotTowardsOOPMax, personAmounts, personOutOfPocketGroup, familyAmounts, familyOutOfPocketGroup) ==
  LET c0 == TimesRate(costLeft, nominalCoinsuranceRate)
      c1 == JsMax(c0, Fine(OrElse(coinsuranceMinDollar, NegInfinity)))
      c2 == JsMin(c1, Fine(OrElse(coinsuranceMaxDollar, Infinity)))
      c3 == Min3(c2, Fine(costLeft), Fine(singleUseCostMaxLeft))
      c4 == IF ~coinsuranceNotTowardsOOPMax
              THEN Min3(c3,
                        Fine(AvailableOrInfinity(
                               personAmounts.oopsAvailableByGroup,
                               personOutOfPocketGroup)),
                        Fine(AvailableOrInfinity(
                               familyAmounts.oopsAvailableByGroup,
                               familyOutOfPocketGroup)))
              ELSE c3
      coinsurance == RoundCents(c4)
  IN  [ amount |-> coinsurance,
        person |-> IF ~coinsuranceNotTowardsOOPMax
                     THEN ChargeOutOfPocket(personAmounts,
                                            personOutOfPocketGroup, coinsurance)
                     ELSE personAmounts,
        family |-> IF ~coinsuranceNotTowardsOOPMax
                     THEN ChargeOutOfPocket(familyAmounts,
                                            familyOutOfPocketGroup, coinsurance)
                     ELSE familyAmounts ]

\* ------------------------------------------------------------------------
\* Strings: the error messages of the validation

\* The printable characters by code unit: from the space (32) to the
\* underscore (95), and from a (97) to the tilde (126).
AsciiToUnderscore == " !\"#$%&'()*+,-./0123456789:;<=>?@ABCDEFGHIJKLMNOPQRSTUVWXYZ[\\]^_"
AsciiFromA == "abcdefghijklmnopqrstuvwxyz{|}~"

\* The code unit of a one-character string.
CodeUnit(c) ==
  IF \E i \in 1..Len(AsciiFromA) : SubSeq(AsciiFromA, i, i) = c
    THEN 96 + (CHOOSE i \in 1..Len(AsciiFromA) : SubSeq(AsciiFromA, i, i) = c)
    ELSE 31 + (CHOOSE i \in 1..Len(AsciiToUnderscore) :
                 SubSeq(AsciiToUnderscore, i, i) = c)

\* a < b as JavaScript compares strings (Array.prototype.sort without a
\* compare function): by the code units at the first position where they
\* differ, a proper prefix first.
StrLess(a, b) ==
  LET shorter == IF Len(a) < Len(b) THEN Len(a) ELSE Len(b)
      differing == {i \in 1..shorter : SubSeq(a, i, i) # SubSeq(b, i, i)}
      first == CHOOSE i \in differing : \A j \in differing : i <= j
  IN  IF differing = {} THEN Len(a) < Len(b)
      ELSE CodeUnit(SubSeq(a, first, first)) < CodeUnit(SubSeq(b, first, first))

\* this.errors.sort()
RECURSIVE Insert(_, _)
Insert(sorted, x) ==
  IF sorted = << >> THEN << x >>
  ELSE IF StrLess(x, Head(sorted)) THEN << x >> \o sorted
  ELSE << Head(sorted) >> \o Insert(Tail(sorted), x)

RECURSIVE Sort(_)
Sort(list) == IF list = << >> THEN << >> ELSE Insert(Sort(Tail(list)), Head(list))

\* The sequences of a sequence, one after the other.
RECURSIVE Flatten(_)
Flatten(lists) ==
  IF lists = << >> THEN << >> ELSE Head(lists) \o Flatten(Tail(lists))

\* ------------------------------------------------------------------------
\* validationBase.js
\*
\* The values of the configurations checked have the types the checks ask
\* for, so checkType adds no error and checkRequiredType fails on a missing
\* value only.  A value that may be missing is passed as << >> (undefined)
\* or << value >>.

\* obj[k] as a value that may be missing.
Opt(obj, k) == IF Has(obj, k) THEN << obj[k] >> ELSE << >>

\* checkRequiredType(value, valueName, ...): the errors it adds.
checkRequiredType(value, valueName) ==
  IF value = << >> THEN << valueName \o " is required." >> ELSE << >>

\* An entry of an order array that is not a string (a number, say).
NotAString == "<not a string>"

\* The property names every object inherits: contents[id] !== undefined
\* holds for them on the empty object literal.
ObjectPrototypeNames ==
  { "constructor", "toString", "valueOf", "hasOwnProperty", "isPrototypeOf",
    "propertyIsEnumerable", "toLocaleString", "__proto__" }

\* The first loop of checkObjectAndOrderContentsMatch from index i: the
\* ids put into contents, in order, and the errors added.
RECURSIVE WalkOrderArray(_, _, _, _, _)
WalkOrderArray(orderArrayName, orderArray, i, contents, added) ==
  IF i > Len(orderArray) THEN [contents |-> contents, added |-> added]
  ELSE LET id == orderArray[i]
       IN  IF id = NotAString
             THEN WalkOrderArray(orderArrayName, orderArray, i + 1, contents,
                    Append(added, orderArrayName
                                  \o " must contain only string id values."))
           ELSE IF id \in ObjectPrototypeNames
                   \/ \E j \in 1..Len(contents) : contents[j] = id
             THEN WalkOrderArray(orderArrayName, orderArray, i + 1, contents,
                    Append(added, orderArrayName \o " refers to \"" \o id
                                  \o "\" more than once."))
           ELSE WalkOrderArray(orderArrayName, orderArray, i + 1,
                               Append(contents, id), added)

\* checkObjectAndOrderContentsMatch: the errors it adds (it returns true
\* when there are none).
checkObjectAndOrderContentsMatch(objName, obj, orderArrayName, orderArray) ==
  LET missing == checkRequiredType(obj, objName)
                 \o checkRequiredType(orderArray, orderArrayName)
  IN  IF missing # << >> THEN missing
      ELSE
        LET walked == WalkOrderArray(orderArrayName, orderArray[1], 1,
                                     << >>, << >>)
            contents == {walked.contents[j] : j \in 1..Len(walked.contents)}
            ids == SeqOf(DOMAIN obj[1])
            notInOrder ==
              Flatten([j \in 1..Len(ids) |->
                IF ids[j] \in contents THEN << >>
                ELSE << objName \o " contains id \"" \o ids[j]
                        \o "\" not found in " \o orderArrayName \o "." >>])
            notInObj ==
              Flatten([j \in 1..Len(walked.contents) |->
                IF walked.contents[j] \in DOMAIN obj[1] THEN << >>
                ELSE << orderArrayName \o " refers to \"" \o walked.contents[j]
                        \o "\" not found in " \o objName \o "." >>])
        IN  walked.added \o notInOrder \o notInObj

\* The loop of throwIfErrorsExist over the sorted errors from index i: an
\* error is kept when it differs from the one before it (from "" at first).
RECURSIVE UniqueErrors(_, _, _)
UniqueErrors(sorted, i, previous) ==
  IF i > Len(sorted) THEN << >>
  ELSE (IF sorted[i] # previous THEN << sorted[i] >> ELSE << >>)
       \o UniqueErrors(sorted, i + 1, sorted[i])

\* throwIfErrorsExist: with errors, it sorts them, clears this.errors and
\* throws an Error whose message joins the unique errors; without, it
\* returns.
throwIfErrorsExist(v) ==
  IF Len(v.errors) > 0
    THEN [ errors |-> << >>, outcome |-> "threw",
           report |-> UniqueErrors(Sort(v.errors), 1, "") ]
    ELSE [v EXCEPT !.outcome = "returned"]

\* ------------------------------------------------------------------------
\* mpceValidation.js
\*
\* Every check is given by the errors it adds to this.errors, in the order
\* it adds them; for-in takes the properties in the order SeqOf gives.

\* base["id"]
Indexed(base, id) == base \o "[\"" \o id \o "\"]"

\* The elements of an array, as a set.
Elements(array) == {array[i] : i \in 1..Len(array)}

\* The default branch of the checks' switch over the properties of an
\* object: an error for every property that is not a known one.
UnknownProperties(obj, known, objDesc) ==
  LET names == SeqOf((DOMAIN obj) \ known)
  IN  [i \in 1..Len(names) |->
         objDesc \o " contains unknown property \"" \o names[i] \o "\"."]

\* checkRegions
checkRegions(config) ==
  LET mismatch == checkObjectAndOrderContentsMatch(
                    "regions", Opt(config, "regions"),
                    "regionsOrder", Opt(config, "regionsOrder"))
      regionIds == SeqOf(DOMAIN config.regions)
      OfRegion(regionId) ==
        LET region == config.regions[regionId]
            desc == Indexed("regions", regionId)
            plans == IF Has(region, "plans") THEN region.plans ELSE << >>
        IN  checkRequiredType(Opt(region, "description"), desc \o ".description")
            \o checkRequiredType(Opt(region, "plans"), desc \o ".plans")
            \o Flatten([i \in 1..Len(plans) |->
                 IF Has(config, "plans") /\ ~Has(config.plans, plans[i])
                   THEN << desc \o ".plans refers to unknown plan id \""
                           \o plans[i] \o "\"." >>
                   ELSE << >>])
            \o UnknownProperties(region, {"description", "plans"}, desc)
  IN  IF mismatch # << >> THEN mismatch
      ELSE Flatten([i \in 1..Len(regionIds) |-> OfRegion(regionIds[i])])

\* The check of an amountMap (or a fundAmountMap): each id is a coverage
\* level id mapping to a number, or a region or status id mapping to an
\* object with every coverage level id.
checkAmountMap(config, amountMap, propDesc) ==
  LET ids == SeqOf(DOMAIN amountMap)
  IN  Flatten([i \in 1..Len(ids) |->
        IF Has(config.coverageLevels, ids[i]) THEN << >>
        ELSE IF Has(config.regions, ids[i]) \/ Has(config.statuses, ids[i])
          THEN checkObjectAndOrderContentsMatch(
                 Indexed(propDesc, ids[i]), << amountMap[ids[i]] >>,
                 "coverageLevelsOrder", Opt(config, "coverageLevelsOrder"))
        ELSE << propDesc \o " contains an id \"" \o ids[i]
                \o "\" that is neither a coverageLevelId nor a regionId"
                \o " nor a statusId." >>])

\* The loop of checkDeductiblesMaximumsObject over the categories of a
\* group from index i: the errors added, and categoriesMentioned.
RECURSIVE CheckGroupCategories(_, _, _, _, _, _)
CheckGroupCategories(config, groupName, propDesc, categories, i, state) ==
  IF i > Len(categories) THEN state
  ELSE LET categoryId == categories[i]
           next ==
             IF ~Has(config.categories, categoryId)
               THEN [state EXCEPT !.added =
                       Append(@, propDesc
                                 \o ".categories refers to unknown category id \""
                                 \o categoryId \o "\".")]
             ELSE IF Has(state.categoriesMentioned, categoryId)
               THEN [state EXCEPT !.added =
                       Append(@, propDesc
                                 \o ".categories refers to category id \""
                                 \o categoryId \o "\" already used by group id \""
                                 \o state.categoriesMentioned[categoryId]
                                 \o "\".")]
             ELSE IF categoryId \in ObjectPrototypeNames
               THEN [state EXCEPT !.added =
                       Append(@, propDesc
                                 \o ".categories refers to category id \""
                                 \o categoryId
                                 \o "\" already used by group id \""
                                 \o "function\".")]
             ELSE [state EXCEPT !.categoriesMentioned =
                     Put(@, categoryId, groupName)]
       IN  CheckGroupCategories(config, groupName, propDesc, categories,
                                i + 1, next)

\* The body of the loop of checkDeductiblesMaximumsObject over the groups.
CheckGroup(config, obj, propDescBase, groupName, state) ==
  LET group == obj[groupName]
      propDesc == Indexed(propDescBase, groupName)
      categorised ==
        IF groupName = "general"
          THEN [state EXCEPT !.added =
                  @ \o (IF Has(group, "categories")
                          THEN << propDesc \o " can't have a categories property;"
                                  \o " group id \"general\" catches all else." >>
                          ELSE << >>)]
        ELSE IF ~Has(group, "categories")
          THEN [state EXCEPT !.added =
                  @ \o checkRequiredType(<< >>, propDesc \o ".categories")]
        ELSE IF ~Has(config, "categories") THEN state
        ELSE CheckGroupCategories(config, groupName, propDesc,
                                  group.categories, 1, state)
      properties ==
        (IF Has(group, "amount") /\ Has(group, "amountMap")
           THEN << propDesc \o " can't have both amount and amountMap properties." >>
           ELSE IF Has(group, "amountMap")
             THEN checkAmountMap(config, group.amountMap, propDesc \o ".amountMap")
           ELSE << >>)
        \o UnknownProperties(group, {"categories", "amount", "amountMap"},
                             propDesc)
        \o (IF Has(group, "amount") \/ Has(group, "amountMap") THEN << >>
            ELSE << propDesc
                    \o " must contain either an amount or amountMap property." >>)
  IN  [categorised EXCEPT !.added = @ \o properties]

RECURSIVE CheckGroups(_, _, _, _, _, _)
CheckGroups(config, obj, propDescBase, groupNames, i, state) ==
  IF i > Len(groupNames) THEN state
  ELSE CheckGroups(config, obj, propDescBase, groupNames, i + 1,
                   CheckGroup(config, obj, propDescBase, groupNames[i], state))

\* checkDeductiblesMaximumsObject
checkDeductiblesMaximumsObject(config, obj, propDescBase) ==
  CheckGroups(config, obj, propDescBase, SeqOf(DOMAIN obj), 1,
              [added |-> << >>, categoriesMentioned |-> << >>]).added
  \o (IF Has(obj, "general") THEN << >>
      ELSE << propDescBase \o " must contain a group with id \"general\"." >>)

\* The four limit objects of a plan.
LimitObjectNames ==
  { "personDeductibles", "familyDeductibles",
    "personOutOfPocketMaximums", "familyOutOfPocketMaximums" }

\* The last loop of checkPlans: the services without the costs object a
\* plan names (costsObjectId, or "costs").
MissingCostsObjects(config) ==
  LET costsObjectIds ==
        {IF Has(config.plans[p], "costsObjectId")
              /\ (config.plans[p].costsObjectId = "costs"
                  \/ (Len(config.plans[p].costsObjectId) >= 6
                      /\ SubSeq(config.plans[p].costsObjectId, 1, 6) = "costs_"))
           THEN config.plans[p].costsObjectId ELSE "costs" :
         p \in DOMAIN config.plans}
      ids == SeqOf(costsObjectIds)
      serviceIds == IF Has(config, "services") THEN SeqOf(DOMAIN config.services)
                    ELSE << >>
  IN  Flatten([i \in 1..Len(ids) |->
        Flatten([j \in 1..Len(serviceIds) |->
          IF Has(config.services[serviceIds[j]], ids[i]) THEN << >>
          ELSE IF ids[i] # "costs"
            THEN << Indexed("services", serviceIds[j])
                    \o " is missing a costs object with id \"" \o ids[i]
                    \o "\"." >>
          ELSE << Indexed("services", serviceIds[j]) \o ".costs is required." >>])])

\* checkPlans
checkPlans(config) ==
  LET mismatch == checkObjectAndOrderContentsMatch(
                    "plans", Opt(config, "plans"),
                    "plansOrder", Opt(config, "plansOrder"))
      planIds == SeqOf(DOMAIN config.plans)
      OfPlan(planId) ==
        LET plan == config.plans[planId]
            desc == Indexed("plans", planId)
            limitObjects == SeqOf((DOMAIN plan) \cap LimitObjectNames)
            fundCategories ==
              IF Has(plan, "categoriesFundAppliesTo")
                THEN SeqOf(DOMAIN plan.categoriesFundAppliesTo) ELSE << >>
        IN  checkRequiredType(Opt(plan, "description"), desc \o ".description")
            \o Flatten([i \in 1..Len(limitObjects) |->
                 checkDeductiblesMaximumsObject(
                   config, plan[limitObjects[i]],
                   desc \o "." \o limitObjects[i])])
            \o (IF Has(plan, "fundAmountMap")
                  THEN checkAmountMap(config, plan.fundAmountMap,
                                      desc \o ".fundAmountMap")
                  ELSE << >>)
            \o Flatten([i \in 1..Len(fundCategories) |->
                 IF Has(config, "categories")
                    /\ ~Has(config.categories, fundCategories[i])
                   THEN << desc \o ".categoriesFundAppliesTo"
                           \o " refers to unknown category id \""
                           \o fundCategories[i] \o "\"." >>
                   ELSE << >>])
            \o (IF Has(plan, "costsObjectId")
                   /\ plan.costsObjectId # "costs"
                   /\ ~(Len(plan.costsObjectId) >= 6
                        /\ SubSeq(plan.costsObjectId, 1, 6) = "costs_")
                  THEN << desc \o ".costsObjectId"
                          \o " must be \"costs\" or start with \"costs_\"." >>
                  ELSE << >>)
            \o UnknownProperties(
                 plan,
                 LimitObjectNames
                   \cup { "description", "mapping", "fundAmountMap",
                          "categoriesFundAppliesTo", "fundAllowsContributions",
                          "costsObjectId" },
                 desc)
  IN  IF mismatch # << >> THEN mismatch
      ELSE Flatten([i \in 1..Len(planIds) |-> OfPlan(planIds[i])])
           \o MissingCostsObjects(config)

\* checkStatuses
checkStatuses(config) ==
  LET mismatch == checkObjectAndOrderContentsMatch(
                    "statuses", Opt(config, "statuses"),
                    "statusesOrder", Opt(config, "statusesOrder"))
      statusIds == SeqOf(DOMAIN config.statuses)
  IN  IF mismatch # << >> THEN mismatch
      ELSE Flatten([i \in 1..Len(statusIds) |->
             checkRequiredType(
               Opt(config.statuses[statusIds[i]], "description"),
               Indexed("statuses", statusIds[i]) \o ".description")
             \o UnknownProperties(config.statuses[statusIds[i]],
                                  {"description"},
                                  Indexed("statuses", statusIds[i]))])

\* checkCoverageLevels
checkCoverageLevels(config) ==
  LET mismatch == checkObjectAndOrderContentsMatch(
                    "coverageLevels", Opt(config, "coverageLevels"),
                    "coverageLevelsOrder", Opt(config, "coverageLevelsOrder"))
      ids == SeqOf(DOMAIN config.coverageLevels)
      OfLevel(id) ==
        LET coverageLevel == config.coverageLevels[id]
            desc == Indexed("coverageLevels", id)
        IN  checkRequiredType(Opt(coverageLevel, "description"),
                              desc \o ".description")
            \o checkRequiredType(Opt(coverageLevel, "spouse"), desc \o ".spouse")
            \o checkRequiredType(Opt(coverageLevel, "maxNumChildren"),
                                 desc \o ".maxNumChildren")
            \o UnknownProperties(coverageLevel,
                                 {"description", "spouse", "maxNumChildren"},
                                 desc)
  IN  IF mismatch # << >> THEN mismatch
      ELSE Flatten([i \in 1..Len(ids) |-> OfLevel(ids[i])])

\* checkCoverageLevelCostsPerPlan (every amount is a number or null)
checkCoverageLevelCostsPerPlan(config) ==
  LET mismatch == checkObjectAndOrderContentsMatch(
                    "coverageLevelCostsPerPlan",
                    Opt(config, "coverageLevelCostsPerPlan"),
                    "plansOrder", Opt(config, "plansOrder"))
      planIds == SeqOf(DOMAIN config.coverageLevelCostsPerPlan)
      OfRegion(desc, perLevel) ==
        LET levelIds == SeqOf(DOMAIN perLevel)
        IN  checkObjectAndOrderContentsMatch(
              desc, << perLevel >>,
              "coverageLevelsOrder", Opt(config, "coverageLevelsOrder"))
            \o Flatten([k \in 1..Len(levelIds) |->
                 checkObjectAndOrderContentsMatch(
                   Indexed(desc, levelIds[k]), << perLevel[levelIds[k]] >>,
                   "statusesOrder", Opt(config, "statusesOrder"))])
      OfPlan(planId) ==
        LET costs == config.coverageLevelCostsPerPlan[planId]
            base == Indexed("coverageLevelCostsPerPlan", planId)
            ids == SeqOf(DOMAIN costs)
        IN  Flatten([j \in 1..Len(ids) |->
              IF Has(config, "regions") /\ Has(config.regions, ids[j])
                THEN OfRegion(Indexed(base, ids[j]), costs[ids[j]])
                ELSE (IF Has(config, "coverageLevels")
                         /\ ~Has(config.coverageLevels, ids[j])
                        THEN << base \o " contains id \"" \o ids[j]
                                \o "\" not found in regions or coverageLevels." >>
                        ELSE << >>)
                     \o checkObjectAndOrderContentsMatch(
                          Indexed(base, ids[j]), << costs[ids[j]] >>,
                          "statusesOrder", Opt(config, "statusesOrder"))])
  IN  IF mismatch # << >> THEN mismatch
      ELSE Flatten([i \in 1..Len(planIds) |-> OfPlan(planIds[i])])

\* What a check has done: the errors it added, and whether it threw an
\* exception of its own (a TypeError) after adding them.
Checked(added, threw) == [ added |-> added, threw |-> threw ]

\* One check after another: nothing runs after a check that threw.
RECURSIVE InTurn(_, _)
InTurn(checks, i) ==
  IF i > Len(checks) THEN Checked(<< >>, FALSE)
  ELSE IF checks[i].threw THEN checks[i]
  ELSE LET rest == InTurn(checks, i + 1)
       IN  Checked(checks[i].added \o rest.added, rest.threw)

\* The properties checkServicePlanCoverageObject knows.
CoverageProperties ==
  { "coinsurance", "coinsuranceMinDollar", "coinsuranceMaxDollar", "copay",
    "coinsuranceNotTowardsOOPMax", "copayNotTowardsOOPMax", "coveredCount",
    "dollarLimit", "deductible", "notCovered", "singleUseCostMax",
    "combinedLimitId" }

\* checkServicePlanCoverageObject.  config.combinedLimits.hasOwnProperty is
\* a TypeError when the configuration has no combinedLimits.  A rate is in
\* percent and an amount in cents: a whole number of dollars is a multiple
\* of 100.
checkServicePlanCoverageObject(config, obj, propDescBase) ==
  LET P(propName) == propDescBase \o "." \o propName
      Negative(propName) ==
        IF Has(obj, propName) /\ obj[propName] < 0
          THEN << P(propName) \o " must not be negative." >> ELSE << >>
      added ==
        (IF Has(obj, "coinsurance")
            /\ (obj.coinsurance < 0 \/ obj.coinsurance > 100)
           THEN << P("coinsurance") \o " must be in the range [0, 1]." >>
           ELSE << >>)
        \o Negative("coinsuranceMinDollar")
        \o Negative("coinsuranceMaxDollar")
        \o Negative("copay")
        \o Negative("coveredCount")
        \o Negative("dollarLimit")
        \o (IF Has(obj, "dollarLimit") /\ obj.dollarLimit % 100 # 0
              THEN << P("dollarLimit") \o " must be a whole number." >>
              ELSE << >>)
        \o (IF Has(obj, "deductible")
               /\ obj.deductible \notin { "none", "beforeCopay", "afterCopay",
                                          "beforeCoinsurance" }
              THEN << P("deductible") \o " must be one of:"
                      \o " \"none\", \"beforeCopay\", \"afterCopay\","
                      \o " \"beforeCoinsurance\"." >>
              ELSE << >>)
        \o (IF Has(obj, "notCovered") /\ ~obj.notCovered
              THEN << P("notCovered")
                      \o " must be false if specified; leave it out if true." >>
              ELSE << >>)
        \o Negative("singleUseCostMax")
        \o (IF Has(obj, "combinedLimitId") /\ Has(config, "combinedLimits")
               /\ ~Has(config.combinedLimits, obj.combinedLimitId)
              THEN << P("combinedLimitId")
                      \o " refers to unknown combined limit id \""
                      \o obj.combinedLimitId \o "\"." >>
              ELSE << >>)
        \o UnknownProperties(obj, CoverageProperties, propDescBase)
      after ==
        (IF DOMAIN obj = {}
           THEN << propDescBase
                   \o " must have properties; minimum is \"notCovered: true\"." >>
           ELSE << >>)
        \o (IF Has(obj, "copay") /\ Has(obj, "dollarLimit")
              THEN << propDescBase
                      \o " specifies \"copay\" and \"dollarLimit\"; dollar"
                      \o " limits are only supported with coinsurance." >>
              ELSE << >>)
        \o (IF Has(obj, "coveredCount") /\ Has(obj, "dollarLimit")
              THEN << propDescBase
                      \o " specifies both \"coveredCount\" and \"dollarLimit\";"
                      \o " only one or the other may be specified." >>
              ELSE << >>)
  IN  IF Has(obj, "combinedLimitId") /\ ~Has(config, "combinedLimits")
        THEN Checked(added, TRUE)
        ELSE Checked(added \o after, FALSE)

\* A decimal index of an array.
Decimal(i) == IF i < 10 THEN SubSeq("0123456789", i + 1, i + 1) ELSE "10+"

\* The costs objects of a service: costs, costsForDisplay and costs_*.
IsCostsName(propName) ==
  \/ propName \in {"costs", "costsForDisplay"}
  \/ Len(propName) >= 6 /\ SubSeq(propName, 1, 6) = "costs_"

\* checkServices
checkServices(config) ==
  LET serviceIds == SeqOf(DOMAIN config.services)
      OfCoverage(propDesc, planId, servicePlanCoverage) ==
        IF IsArray(servicePlanCoverage)
          THEN InTurn([i \in 1..Len(servicePlanCoverage.array) |->
                 checkServicePlanCoverageObject(
                   config, servicePlanCoverage.array[i],
                   Indexed(propDesc, planId) \o "[" \o Decimal(i - 1) \o "]")],
                 1)
          ELSE checkServicePlanCoverageObject(
                 config, servicePlanCoverage, Indexed(propDesc, planId))
      OfService(serviceId) ==
        LET service == config.services[serviceId]
            desc == Indexed("services", serviceId)
            propDesc == desc \o ".coverage"
            mismatch ==
              IF Has(service, "coverage")
                THEN checkObjectAndOrderContentsMatch(
                       propDesc, << service.coverage >>,
                       "plansOrder", Opt(config, "plansOrder"))
                ELSE checkRequiredType(<< >>, propDesc)
            planIds == IF Has(service, "coverage") /\ mismatch = << >>
                         THEN SeqOf(DOMAIN service.coverage) ELSE << >>
            costsNames == SeqOf({n \in DOMAIN service : IsCostsName(n)})
            OfCosts(propName) ==
              LET regionIds == SeqOf(DOMAIN service[propName])
              IN  Flatten([k \in 1..Len(regionIds) |->
                    IF Has(config, "regions")
                       /\ ~Has(config.regions, regionIds[k])
                      THEN << desc \o "." \o propName
                              \o " refers to unknown region id \""
                              \o regionIds[k] \o "\"." >>
                      ELSE << >>])
        IN  InTurn(
              << Checked(checkRequiredType(Opt(service, "description"),
                                           desc \o ".description")
                         \o mismatch, FALSE),
                 InTurn([j \in 1..Len(planIds) |->
                           OfCoverage(propDesc, planIds[j],
                                      service.coverage[planIds[j]])], 1),
                 Checked(
                   Flatten([j \in 1..Len(costsNames) |-> OfCosts(costsNames[j])])
                   \o UnknownProperties(
                        service,
                        {"description", "coverage"}
                          \cup {n \in DOMAIN service : IsCostsName(n)},
                        desc),
                   FALSE) >>, 1)
  IN  IF ~Has(config, "services")
        THEN Checked(checkRequiredType(<< >>, "services"), FALSE)
        ELSE InTurn([i \in 1..Len(serviceIds) |-> OfService(serviceIds[i])], 1)

\* checkCombinedLimits
checkCombinedLimits(config) ==
  LET ids == IF Has(config, "combinedLimits")
               THEN SeqOf(DOMAIN config.combinedLimits) ELSE << >>
      OfLimit(id) ==
        LET combinedLimit == config.combinedLimits[id]
            desc == Indexed("combinedLimits", id)
            Negative(propName) ==
              IF Has(combinedLimit, propName) /\ combinedLimit[propName] < 0
                THEN << desc \o "." \o propName \o " must not be negative." >>
                ELSE << >>
        IN  checkRequiredType(Opt(combinedLimit, "description"),
                              desc \o ".description")
            \o Negative("personReimburseLimit")
            \o Negative("familyReimburseLimit")
            \o UnknownProperties(
                 combinedLimit,
                 {"description", "personReimburseLimit", "familyReimburseLimit"},
                 desc)
  IN  Flatten([i \in 1..Len(ids) |-> OfLimit(ids[i])])

\* allCategoryContents of checkCategories: the orderedContents of every
\* category, one after the other.
AllCategoryContents(config) ==
  LET ids == SeqOf(DOMAIN config.categories)
  IN  Flatten([i \in 1..Len(ids) |->
        IF Has(config.categories[ids[i]], "orderedContents")
          THEN config.categories[ids[i]].orderedContents ELSE << >>])

\* checkCategories
checkCategories(config) ==
  LET mismatch == checkObjectAndOrderContentsMatch(
                    "categories", Opt(config, "categories"),
                    "categoriesOrder", Opt(config, "categoriesOrder"))
      ids == SeqOf(DOMAIN config.categories)
      OfCategory(id) ==
        LET category == config.categories[id]
            desc == Indexed("categories", id)
        IN  checkRequiredType(Opt(category, "description"),
                              desc \o ".description")
            \o checkRequiredType(Opt(category, "orderedContents"),
                                 desc \o ".orderedContents")
            \o UnknownProperties(category, {"description", "orderedContents"},
                                 desc)
  IN  IF mismatch # << >> THEN mismatch
      ELSE Flatten([i \in 1..Len(ids) |-> OfCategory(ids[i])])
           \o (IF Has(config, "services")
                 THEN checkObjectAndOrderContentsMatch(
                        "services", << config.services >>,
                        "combined category orderedContents",
                        << AllCategoryContents(config) >>)
                 ELSE << >>)

\* checkHealthStatuses
checkHealthStatuses(config) ==
  LET mismatch == checkObjectAndOrderContentsMatch(
                    "healthStatuses", Opt(config, "healthStatuses"),
                    "healthStatusesOrder", Opt(config, "healthStatusesOrder"))
      ids == SeqOf(DOMAIN config.healthStatuses)
      OfHealthStatus(id) ==
        LET healthStatus == config.healthStatuses[id]
            desc == Indexed("healthStatuses", id)
            serviceIds == IF Has(healthStatus, "contents")
                            THEN SeqOf(DOMAIN healthStatus.contents) ELSE << >>
        IN  checkRequiredType(Opt(healthStatus, "description"),
                              desc \o ".description")
            \o checkRequiredType(Opt(healthStatus, "contents"),
                                 desc \o ".contents")
            \o Flatten([k \in 1..Len(serviceIds) |->
                 IF Has(config, "services")
                    /\ ~Has(config.services, serviceIds[k])
                   THEN << desc \o ".contents refers to unknown service id \""
                           \o serviceIds[k] \o "\"." >>
                   ELSE << >>])
            \o UnknownProperties(healthStatus,
                                 {"description", "contents", "customColor"},
                                 desc)
  IN  IF mismatch # << >> THEN mismatch
      ELSE Flatten([i \in 1..Len(ids) |-> OfHealthStatus(ids[i])])

\* checkConfig: clearErrors, the nine checks, throwIfErrorsExist.  When a
\* check throws, the exception leaves checkConfig at once, with the errors
\* found so far still in this.errors.
checkConfig(config) ==
  LET checks == InTurn(
        << Checked(checkRegions(config), FALSE),
           Checked(checkPlans(config), FALSE),
           Checked(checkStatuses(config), FALSE),
           Checked(checkCoverageLevels(config), FALSE),
           Checked(checkCoverageLevelCostsPerPlan(config), FALSE),
           checkServices(config),
           Checked(checkCombinedLimits(config), FALSE),
           Checked(checkCategories(config), FALSE),
           Checked(checkHealthStatuses(config), FALSE) >>, 1)
  IN  IF checks.threw
        THEN [ errors |-> checks.added, outcome |-> "typeError",
               report |-> << >> ]
        ELSE throwIfErrorsExist([ errors |-> checks.added, outcome |-> "none",
                                  report |-> << >> ])

\* checkConfig returns normally.
Accepts(config) == checkConfig(config).outcome = "returned"

\* ------------------------------------------------------------------------
\* The arguments of calculate()

\* Service counts of a household of n people: a map from (person, service)
\* to a count, with at most the given number of units in all.
RECURSIVE Usages(_, _, _)
Usages(n, serviceIds, units) ==
  IF units = 0 THEN {[slot \in (1..n) \X serviceIds |-> 0]}
  ELSE LET fewer == Usages(n, serviceIds, units - 1)
       IN  fewer \cup
           {[pair[1] EXCEPT ![pair[2]] = @ + 1] :
              pair \in {q \in fewer \X ((1..n) \X serviceIds) :
                          q[1][q[2]] < MaxCount}}

\* The services object of person i: a property for each service used.
ServicesObject(usage, i, serviceIds) ==
  [s \in {t \in serviceIds : usage[<<i, t>>] > 0} |-> usage[<<i, s>>]]

\* The per-plan amount arguments: all absent; all present and not
\* negative; a rollover with a negative premium adjustment.
AmountArguments(config) ==
  { [ fundRolloverAmounts |-> Null, voluntaryFundContributionAmounts |-> Null,
      premiumAdjustmentAmounts |-> Null,
      planFundAdditionalMatchAmounts |-> Null ],
    [ fundRolloverAmounts |-> [p \in DOMAIN config.plans |-> 50],
      voluntaryFundContributionAmounts |-> [p \in DOMAIN config.plans |-> 70],
      premiumAdjustmentAmounts |-> [p \in DOMAIN config.plans |-> 25],
      planFundAdditionalMatchAmounts |-> [p \in DOMAIN config.plans |-> 30] ],
    [ fundRolloverAmounts |-> [p \in DOMAIN config.plans |-> 50],
      voluntaryFundContributionAmounts |-> Null,
      premiumAdjustmentAmounts |-> [p \in DOMAIN config.plans |-> 0 - 950],
      planFundAdditionalMatchAmounts |-> Null ] }

\* The calls with an argument calculate() refuses: a region or a status the
\* configuration does not have, no primary, children that are not an array,
\* alone or together.
InvalidCalls(config) ==
  { a \in [ regionId : {CHOOSE r \in DOMAIN config.regions : TRUE, "ZZ"},
            statusId : {"fullTime", "retired"},
            primary : {<< >>, Null},
            spouse : {Null},
            childrenArray : {<< >>, NotAnArray},
            amounts : {[ fundRolloverAmounts |-> Null,
                         voluntaryFundContributionAmounts |-> Null,
                         premiumAdjustmentAmounts |-> Null,
                         planFundAdditionalMatchAmounts |-> Null ]} ] :
      ~(/\ Has(config.regions, a.regionId) /\ Has(config.statuses, a.statusId)
        /\ a.primary # Null /\ a.childrenArray # NotAnArray) }

\* The calls with valid arguments: every region, the status fullTime, a
\* primary, an optional spouse, up to MaxChildren children.
ValidCalls(config) ==
  UNION { UNION {
    { [ regionId |-> regionId, statusId |-> "fullTime",
        primary |-> ServicesObject(usage, 1, DOMAIN config.services),
        spouse |-> IF hasSpouse
                     THEN ServicesObject(usage, 2, DOMAIN config.services)
                     ELSE Null,
        childrenArray |->
          [c \in 1..numChildren |->
             ServicesObject(usage, c + (IF hasSpouse THEN 2 ELSE 1),
                            DOMAIN config.services)],
        amounts |-> amounts ] :
      regionId \in DOMAIN config.regions,
      usage \in Usages(1 + (IF hasSpouse THEN 1 ELSE 0) + numChildren,
                       DOMAIN config.services, MaxUnits),
      amounts \in AmountArguments(config) } :
    hasSpouse \in BOOLEAN } : numChildren \in 0..MaxChildren }

\* Scenario S6, on the published configuration: heavy use of the drug
\* service by one person; by a primary and a spouse, with a child who uses
\* it too; and by a person whose inpatient stays use up the general
\* out-of-pocket maximum first.
S6Calls(config) ==
  IF ~Has(config.services, "drugsMailPref90DaySupply") THEN {}
  ELSE
    LET S6Call(primary, spouse, childrenArray) ==
          [ regionId |-> "AZ", statusId |-> "fullTime", primary |-> primary,
            spouse |-> spouse, childrenArray |-> childrenArray,
            amounts |-> [ fundRolloverAmounts |-> Null,
                          voluntaryFundContributionAmounts |-> Null,
                          premiumAdjustmentAmounts |-> Null,
                          planFundAdditionalMatchAmounts |-> Null ] ]
    IN  { S6Call([drugsMailPref90DaySupply |-> S6Fills], Null, << >>),
          S6Call([drugsMailPref90DaySupply |-> S6Fills],
                 [drugsMailPref90DaySupply |-> S6Fills],
                 << [drugsMailPref90DaySupply |-> 1] >>),
          S6Call([other2DayInpatientFacCharges |-> S6Stays,
                  drugsMailPref90DaySupply |-> 2], Null, << >>) }

\* The calls made on a configuration.
Calls(config) ==
  InvalidCalls(config) \cup ValidCalls(config) \cup S6Calls(config)

\* The validation of the required parameters: the message of the Error
\* thrown, "" when none is.
ArgumentErrorStatusFirst(config, a) ==
  IF ~Has(config.statuses, a.statusId) THEN "Unknown statusId"
  ELSE IF ~Has(config.regions, a.regionId) THEN "Unknown regionId"
  ELSE IF isNullOrUndefined(a.primary)
    THEN "Parameter primary must not be null or undefined."
  ELSE IF ~isArray(a.childrenArray)
    THEN "The childrenArray parameter must be an array of objects."
  ELSE ""

ArgumentError(config, a) ==
  IF ~Has(config.regions, a.regionId) THEN "Unknown regionId"
  ELSE IF ~Has(config.statuses, a.statusId) THEN "Unknown statusId"
  ELSE IF isNullOrUndefined(a.primary)
    THEN "Parameter primary must not be null or undefined."
  ELSE IF ~isArray(a.childrenArray)
    THEN "The childrenArray parameter must be an array of objects."
  ELSE ""

\* xxxAmounts[planId] || 0, zero when the argument is null or undefined.
AmountForPlan(amountsByPlan, planId) ==
  IF isNullOrUndefined(amountsByPlan) THEN 0
  ELSE OrElse(Get(amountsByPlan, planId), 0)

\* ------------------------------------------------------------------------
\* The Flexible Spending Account Estimator (fsaeEngine.js): its numbers
\*
\* A dollar amount of the estimator is the record [d, m]: d whole dollars
\* plus m millionths of a dollar, 0 <= m < 1000000 (d is the floor, so
\* -0.25 is [d |-> -1, m |-> 750000]).  A rate is an integer number of
\* ten-thousandths (0.0765 is 765).  Sums, differences and comparisons are
\* exact; a product or a quotient is rounded to the nearest millionth where
\* the double would be rounded to 53 bits.  Infinity is Infinity dollars.

Million == 1000000
RateOne == 10000

Dollars(n) == [d |-> n, m |-> 0]
Cents(c) == [d |-> c \div 100, m |-> (c % 100) * 10000]

FixNorm(d, m) == [d |-> d + (m \div Million), m |-> m % Million]

\* a + b
FixAdd(a, b) == FixNorm(a.d + b.d, a.m + b.m)
\* -a
FixNeg(a) ==
  IF a.m = 0 THEN [d |-> 0 - a.d, m |-> 0]
  ELSE [d |-> 0 - a.d - 1, m |-> Million - a.m]
\* a - b
FixSub(a, b) == FixAdd(a, FixNeg(b))
\* a < b
FixLess(a, b) == a.d < b.d \/ (a.d = b.d /\ a.m < b.m)
\* a <= b
FixLeq(a, b) == a = b \/ FixLess(a, b)
\* Math.min(a, b) and Math.max(a, b)
FixMin(a, b) == IF FixLess(b, a) THEN b ELSE a
FixMax(a, b) == IF FixLess(a, b) THEN b ELSE a

\* rate * a
FixMul(rate, a) ==
  LET whole == rate * a.d
      cents == a.m \div 10000
      below == a.m % 10000
  IN  FixNorm(whole \div RateOne,
              (whole % RateOne) * 100 + rate * cents
                + (rate * below + 5000) \div RateOne)

\* a / (1 + rate), for a >= 0
FixDivOnePlus(a, rate) ==
  LET k == RateOne + rate
      whole == a.d * RateOne
      y == (whole % k) * 100 + a.m
      r1 == (y * 100) % k
  IN  FixNorm(whole \div k,
              ((y * 100) \div k) * 100 + (r1 * 100 + (k \div 2)) \div k)

\* Math.round(a * 100) / 100, as a number of cents.
FixRoundCents(a) == a.d * 100 + (a.m + 5000) \div 10000

\* ------------------------------------------------------------------------
\* The estimator's configuration (fsaeConfig.js).  A configured dollar
\* amount is a whole number of dollars, a configured rate a number of
\* ten-thousandths.

FilingStatusIds ==
  << "single", "marriedFilingJoint", "marriedFilingSeparate",
     "headOfHousehold" >>

PublishedAccountTypes ==
  [ FSA |-> [ description |-> "Flexible Spending Account (FSA) Estimator",
              rolloverPermitted |-> FALSE,
              contributionMinimum |-> 0, contributionMaximum |-> 2600 ],
    HSA |-> [ description |-> "HSA and Limited-Purpose FSA Estimator",
              rolloverPermitted |-> FALSE,
              contributionMinimum |-> 0, contributionMaximum |-> 6900 ],
    LPFSA |-> [ description |->
                  "HSA and Limited-Purpose FSA Estimator (LPFSA part)",
                rolloverPermitted |-> FALSE,
                contributionMinimum |-> 0, contributionMaximum |-> 2600 ] ]

PublishedFederalIncomeTax ==
  [ brackets |->
      [ single |-> << 9325, 37950, 91900, 191650, 416700, 418400 >>,
        marriedFilingJoint |->
          << 18650, 75900, 153100, 233350, 416700, 470700 >>,
        marriedFilingSeparate |->
          << 9325, 37950, 76550, 116675, 208350, 235350 >>,
        headOfHousehold |->
          << 13350, 50800, 131200, 212500, 416700, 444550 >> ],
    rates |->
      [ single |-> << 1000, 1500, 2500, 2800, 3300, 3500, 3960 >>,
        marriedFilingJoint |-> << 1000, 1500, 2500, 2800, 3300, 3500, 3960 >>,
        marriedFilingSeparate |->
          << 1000, 1500, 2500, 2800, 3300, 3500, 3960 >>,
        headOfHousehold |-> << 1000, 1500, 2500, 2800, 3300, 3500, 3960 >> ],
    standardDeductions |->
      [ single |-> 6350, marriedFilingJoint |-> 12700,
        marriedFilingSeparate |-> 6350, headOfHousehold |-> 9350 ],
    personalExemptions |->
      [ single |-> 4050, marriedFilingJoint |-> 8100,
        marriedFilingSeparate |-> 4050, headOfHousehold |-> 4050 ],
    dependentExemption |-> 4050 ]

PublishedFicaPayrollTaxes ==
  [ socialSecurityLimit |-> 118500, socialSecurityRate |-> 620,
    medicareRate |-> 145 ]

FSAE_CONFIG ==
  [ accountTypes |-> PublishedAccountTypes,
    accountTypesOrder |-> << "FSA", "HSA", "LPFSA" >>,
    federalIncomeTax |-> PublishedFederalIncomeTax,
    ficaPayrollTaxes |-> PublishedFicaPayrollTaxes ]

\* Account types that use what the published ones leave out: an employer
\* match with and without a cap on it, caps of zero, a minimum, and an
\* account type with no optional property at all.
LabAccountTypes ==
  [ MATCH |-> [ description |-> "Matched account",
                contributionMaximum |-> 1000,
                employerMatchRate |-> 2500, employerMaxMatchAmount |-> 100 ],
    DOUBLE |-> [ description |-> "Dollar-for-dollar match",
                 contributionMaximum |-> 500, employerMatchRate |-> 10000 ],
    CLOSED |-> [ description |-> "Account closed to contributions",
                 contributionMinimum |-> 0, contributionMaximum |-> 0 ],
    NOMATCH |-> [ description |-> "Match capped at nothing",
                  contributionMaximum |-> 1000,
                  employerMatchRate |-> 2500, employerMaxMatchAmount |-> 0 ],
    FLOOR |-> [ description |-> "Account with a minimum",
                contributionMinimum |-> 100, contributionMaximum |-> 1000 ],
    PLAIN |-> [ description |-> "Account without limits" ] ]

LabFsaeConfig ==
  [ accountTypes |-> LabAccountTypes,
    accountTypesOrder |->
      << "MATCH", "DOUBLE", "CLOSED", "NOMATCH", "FLOOR", "PLAIN" >>,
    federalIncomeTax |-> PublishedFederalIncomeTax,
    ficaPayrollTaxes |-> PublishedFicaPayrollTaxes ]

\* A configuration the validator turns down: a negative maximum.
NegativeFsaeConfig ==
  [ accountTypes |->
      [ FSA |-> [ description |-> "Flexible Spending Account",
                  contributionMaximum |-> -1 ] ],
    accountTypesOrder |-> << "FSA" >>,
    federalIncomeTax |-> PublishedFederalIncomeTax,
    ficaPayrollTaxes |-> PublishedFicaPayrollTaxes ]

FsaeConfigs == { FSAE_CONFIG, LabFsaeConfig, NegativeFsaeConfig }

\* ------------------------------------------------------------------------
\* fsaeValidation.js

AccountTypeNumbers ==
  << "contributionMinimum", "contributionMaximum", "employerMatchRate",
     "employerMaxMatchAmount" >>

\* The number-valued properties of one account type: each is optional and
\* must not be negative.
RECURSIVE CheckAccountTypeNumbers(_, _, _)
CheckAccountTypeNumbers(accountTypeId, accountType, i) ==
  IF i > Len(AccountTypeNumbers) THEN << >>
  ELSE
    LET propName == AccountTypeNumbers[i]
        rest == CheckAccountTypeNumbers(accountTypeId, accountType, i + 1)
    IN  IF propName \in DOMAIN accountType /\ accountType[propName] < 0
          THEN << "accountTypes[\"" \o accountTypeId \o "\"]." \o propName
                    \o " must not be negative." >> \o rest
          ELSE rest

RECURSIVE CheckEachAccountType(_, _, _)
CheckEachAccountType(accountTypes, order, i) ==
  IF i > Len(order) THEN << >>
  ELSE CheckAccountTypeNumbers(order[i], accountTypes[order[i]], 1)
         \o CheckEachAccountType(accountTypes, order, i + 1)

\* FSAE_VALIDATION.checkAccountTypes: the errors it adds.
checkAccountTypes(config) ==
  LET match == checkObjectAndOrderContentsMatch(
                 "accountTypes", << config.accountTypes >>,
                 "accountTypesOrder", << config.accountTypesOrder >>)
  IN  IF match # << >> THEN match
      ELSE CheckEachAccountType(config.accountTypes,
                                SeqOf(DOMAIN config.accountTypes), 1)

\* The errors for the properties of an object that the switch over its
\* properties has no case for.
UnknownPropertiesOf(objName, obj, known) ==
  LET names == SeqOf(DOMAIN obj)
  IN  Flatten([j \in 1..Len(names) |->
        IF names[j] \in known THEN << >>
        ELSE << objName \o " contains unknown property \"" \o names[j]
                \o "\"." >>])

FederalIncomeTaxTables ==
  << "brackets", "rates", "standardDeductions", "personalExemptions" >>

\* FSAE_VALIDATION.checkFederalIncomeTax: the errors it adds.
checkFederalIncomeTax(config) ==
  LET missing == checkRequiredType(Opt(config, "federalIncomeTax"),
                                   "federalIncomeTax")
  IN  IF missing # << >> THEN missing
      ELSE
        LET tax == config.federalIncomeTax
            tables == FederalIncomeTaxTables
        IN  Flatten([j \in 1..Len(tables) |->
              checkRequiredType(Opt(tax, tables[j]),
                                "federalIncomeTax." \o tables[j])])
            \o checkRequiredType(Opt(tax, "dependentExemption"),
                                 "federalIncomeTax.dependentExemption")
            \o Flatten([j \in 1..Len(tables) |->
                 IF Has(tax, tables[j])
                   THEN checkObjectAndOrderContentsMatch(
                          "federalIncomeTax." \o tables[j],
                          << tax[tables[j]] >>,
                          "list of valid filing status ids",
                          << FilingStatusIds >>)
                   ELSE << >>])
            \o UnknownPropertiesOf("federalIncomeTax", tax,
                 { tables[j] : j \in 1..Len(tables) }
                   \cup { "dependentExemption" })

FicaPayrollTaxesNumbers ==
  << "socialSecurityLimit", "socialSecurityRate", "medicareRate" >>

\* FSAE_VALIDATION.checkFicaPayrollTaxes: the errors it adds.
checkFicaPayrollTaxes(config) ==
  LET missing == checkRequiredType(Opt(config, "ficaPayrollTaxes"),
                                   "ficaPayrollTaxes")
  IN  IF missing # << >> THEN missing
      ELSE
        LET fica == config.ficaPayrollTaxes
            numbers == FicaPayrollTaxesNumbers
        IN  Flatten([j \in 1..Len(numbers) |->
              checkRequiredType(Opt(fica, numbers[j]),
                                "ficaPayrollTaxes." \o numbers[j])])
            \o UnknownPropertiesOf("ficaPayrollTaxes", fica,
                 { numbers[j] : j \in 1..Len(numbers) })

\* FSAE_VALIDATION.checkConfig
FsaeCheckConfig(config) ==
  throwIfErrorsExist([ errors |-> checkAccountTypes(config)
                                    \o checkFederalIncomeTax(config)
                                    \o checkFicaPayrollTaxes(config),
                       outcome |-> "none", report |-> << >> ])

FsaeAccepts(config) == FsaeCheckConfig(config).outcome = "returned"

\* ------------------------------------------------------------------------
\* fsaeEngine.js

\* The contribution amounts for a total of costs and a rollover.
calculateContributions(config, accountTypeId, totalCosts, rolloverAmount) ==
  LET accountType == config.accountTypes[accountTypeId]
      contributionMinimum ==
        Dollars(OrElse(Get(accountType, "contributionMinimum"), 0))
      contributionMaximum ==
        Dollars(OrElse(Get(accountType, "contributionMaximum"), Infinity))
      employerMatchRate == OrElse(Get(accountType, "employerMatchRate"), 0)
      employerMaxMatchAmount ==
        Dollars(OrElse(Get(accountType, "employerMaxMatchAmount"), Infinity))
      remainingCosts == FixMax(Dollars(0), FixSub(totalCosts, rolloverAmount))
      limitedCosts == FixMin(contributionMaximum, remainingCosts)
      suggested1 == FixDivOnePlus(limitedCosts, employerMatchRate)
      suggested2 == FixSub(limitedCosts, employerMaxMatchAmount)
      suggestedContribution ==
        IF FixLess(Dollars(0), totalCosts)
          THEN FixMax(contributionMinimum, FixMax(suggested1, suggested2))
          ELSE Dollars(0)
  IN  [ suggestedContribution |-> suggestedContribution,
        employerMatchingContribution |->
          FixMin(employerMaxMatchAmount,
                 FixMul(employerMatchRate, suggestedContribution)) ]

\* The tax on the brackets from the i-th on.
RECURSIVE TaxAtBrackets(_, _, _, _, _)
TaxAtBrackets(brackets, incomeTaxRates, taxableIncome, taxedSoFar, i) ==
  IF i > Len(brackets)
    THEN FixMul(incomeTaxRates[i], FixSub(taxableIncome, taxedSoFar))
    ELSE
      LET taxableAtBracket ==
            FixSub(FixMin(Dollars(brackets[i]), taxableIncome), taxedSoFar)
      IN  FixAdd(FixMul(incomeTaxRates[i], taxableAtBracket),
                 TaxAtBrackets(brackets, incomeTaxRates, taxableIncome,
                               FixAdd(taxedSoFar, taxableAtBracket), i + 1))

calculateFederalIncomeTax(config, income, filingStatusId, numberOfDependents) ==
  LET tax == config.federalIncomeTax
      taxableIncome ==
        FixSub(income,
               Dollars(tax.personalExemptions[filingStatusId]
                       + numberOfDependents * tax.dependentExemption
                       + tax.standardDeductions[filingStatusId]))
  IN  TaxAtBrackets(tax.brackets[filingStatusId], tax.rates[filingStatusId],
                    taxableIncome, Dollars(0), 1)

\* The estimator's payroll tax with no Social Security limit.
calculateFicaPayrollTaxesUnlimited(config, income) ==
  FixMul(config.ficaPayrollTaxes.socialSecurityRate
           + config.ficaPayrollTaxes.medicareRate, income)

\* The estimator's payroll tax with both rates stopping at the limit.
calculateFicaPayrollTaxesCapped(config, income) ==
  FixMul(config.ficaPayrollTaxes.socialSecurityRate
           + config.ficaPayrollTaxes.medicareRate,
         FixMin(income, Dollars(config.ficaPayrollTaxes.socialSecurityLimit)))

calculateFicaPayrollTaxes(config, income) ==
  LET socialSecurityLimit == config.ficaPayrollTaxes.socialSecurityLimit
      socialSecurityRate == config.ficaPayrollTaxes.socialSecurityRate
      medicareRate == config.ficaPayrollTaxes.medicareRate
  IN  IF ~FixLess(income, Dollars(socialSecurityLimit))
        THEN FixAdd(FixMul(socialSecurityRate, Dollars(socialSecurityLimit)),
                    FixMul(medicareRate, income))
        ELSE FixMul(socialSecurityRate + medicareRate, income)

\* The total of an array of cost amounts, or the one cost amount.
RECURSIVE SumCosts(_, _)
SumCosts(amounts, i) ==
  IF i > Len(amounts) THEN Dollars(0)
  ELSE FixAdd(Cents(amounts[i]), SumCosts(amounts, i + 1))

TotalCosts(costAmountOrAmounts) ==
  IF IsArray(costAmountOrAmounts) THEN SumCosts(costAmountOrAmounts.array, 1)
  ELSE Cents(costAmountOrAmounts.amount)

\* The account type and the filing status calculate() works with, and the
\* message of the Error it throws on an id it does not know ("" when none).
FsaeAccountTypeId(config, a) ==
  IF a.accountTypeId = "" THEN config.accountTypesOrder[1]
  ELSE a.accountTypeId

FsaeFilingStatusId(a) ==
  IF a.filingStatusId = "" THEN "single" ELSE a.filingStatusId

FsaeArgumentError(config, a) ==
  IF FsaeAccountTypeId(config, a) \notin DOMAIN config.accountTypes
    THEN "Invalid accountTypeId " \o a.accountTypeId
  ELSE IF a.filingStatusId \notin
            { FilingStatusIds[i] : i \in 1..Len(FilingStatusIds) } \cup { "" }
    THEN "Invalid filingStatusId " \o a.filingStatusId
  ELSE ""

\* The income taxed with the spouse's income whatever the filing status.
FederalIncomeBeforeWithSpouse(a, filingStatusId) ==
  FixAdd(Cents(a.primaryAnnualIncome), Cents(a.spouseAnnualIncome))

\* The income the federal income tax is estimated on: the spouse's income
\* counts when filing jointly.
FederalIncomeBefore(a, filingStatusId) ==
  FixAdd(Cents(a.primaryAnnualIncome),
         IF filingStatusId = "marriedFilingJoint"
           THEN Cents(a.spouseAnnualIncome) ELSE Dollars(0))

\* The savings before rounding: what calculate() holds in its locals.
FsaeSavings(config, a) ==
  LET accountTypeId == FsaeAccountTypeId(config, a)
      filingStatusId == FsaeFilingStatusId(a)
      totalCosts == TotalCosts(a.costAmountOrAmounts)
      contributions ==
        calculateContributions(config, accountTypeId, totalCosts,
                               Cents(a.rolloverAmount))
      suggestedContribution == contributions.suggestedContribution
      incomeBefore == FederalIncomeBefore(a, filingStatusId)
      incomeAfter ==
        FixMax(Dollars(0), FixSub(incomeBefore, suggestedContribution))
      federalIncomeTaxSavings ==
        FixSub(calculateFederalIncomeTax(config, incomeBefore, filingStatusId,
                                         a.numberOfDependents),
               calculateFederalIncomeTax(config, incomeAfter, filingStatusId,
                                         a.numberOfDependents))
      ficaBefore == Cents(a.primaryAnnualIncome)
      ficaAfter == FixMax(Dollars(0), FixSub(ficaBefore, suggestedContribution))
      ficaTaxSavings ==
        FixSub(calculateFicaPayrollTaxes(config, ficaBefore),
               calculateFicaPayrollTaxes(config, ficaAfter))
      totalTaxSavings == FixAdd(ficaTaxSavings, federalIncomeTaxSavings)
  IN  [ accountTypeId |-> accountTypeId,
        filingStatusId |-> filingStatusId,
        totalCosts |-> totalCosts,
        suggestedContribution |-> suggestedContribution,
        employerMatchingContribution |->
          contributions.employerMatchingContribution,
        federalIncomeTaxSavings |-> federalIncomeTaxSavings,
        ficaTaxSavings |-> ficaTaxSavings,
        totalTaxSavings |-> totalTaxSavings,
        totalMatchAndTaxSavings |->
          FixAdd(contributions.employerMatchingContribution,
                 totalTaxSavings) ]

\* The results object: every dollar amount rounded to the cent on its own.
FsaeResults(config, a) ==
  LET s == FsaeSavings(config, a)
  IN  [ accountTypeId |-> s.accountTypeId,
        accountTypeDescription |->
          config.accountTypes[s.accountTypeId].description,
        totalCosts |-> FixRoundCents(s.totalCosts),
        suggestedContribution |-> FixRoundCents(s.suggestedContribution),
        employerMatchingContribution |->
          FixRoundCents(s.employerMatchingContribution),
        federalIncomeTaxSavings |-> FixRoundCents(s.federalIncomeTaxSavings),
        ficaTaxSavings |-> FixRoundCents(s.ficaTaxSavings),
        totalTaxSavings |-> FixRoundCents(s.totalTaxSavings),
        totalMatchAndTaxSavings |->
          FixRoundCents(s.totalMatchAndTaxSavings) ]

\* ------------------------------------------------------------------------
\* The state

VARIABLES
  config,          \* the MPCE configuration object, marked up in place
  pc,              \* where the call is
  args,            \* the arguments of calculate()
  coverageLevelId, \* calculate's coverageLevelId
  peopleServices,  \* calculate's peopleServices
  planIndex,       \* calculate's i, from 1
  results,         \* calculate's results
  error,           \* the message of the Error thrown, "" when none
  result,          \* calculateSinglePlan's result
  service,         \* calculateSinglePlan's service
  familyAmounts,   \* calculateSinglePlan's familyAmounts
  peopleAmounts,   \* calculateSinglePlan's peopleAmounts
  loc,             \* locals of calculateServicesInnerFunc and calculateService
  session,         \* what the caller has seen of the calls made so far
  validation       \* MPCE_VALIDATION: its errors and what checkConfig did

vars == << config, pc, args, coverageLevelId, peopleServices, planIndex,
           results, error, result, service, familyAmounts, peopleAmounts, loc,
           session, validation >>

NoArgs ==
  [ regionId |-> "", statusId |-> "", primary |-> Null, spouse |-> Null,
    childrenArray |-> << >>,
    amounts |-> [ fundRolloverAmounts |-> Null,
                  voluntaryFundContributionAmounts |-> Null,
                  premiumAdjustmentAmounts |-> Null,
                  planFundAdditionalMatchAmounts |-> Null ] ]

\* The result object calculateSinglePlan starts from.
NewResult(planId, level) ==
  [ planId |-> planId, coverageLevelId |-> level,
    totalDeductibles |-> 0, totalCopays |-> 0, totalCoinsurance |-> 0,
    totalExpensesNotCovered |-> 0, totalRawExpenses |-> 0,
    totalFundEligibleCosts |-> 0, totalFundAmountOffset |-> 0,
    planFundPaid |-> 0, planFundAdditionalMatchPaid |-> 0,
    planRolloverFundPaid |-> 0, voluntaryFundPaid |-> 0,
    fundCarryoverBalance |-> 0,
    totalMedicalAndDrugCostsExcludingDeductibles |-> 0,
    totalMedicalAndDrugCosts |-> 0,
    totalMedicalAndDrugCostsLessFundOffset |-> 0,
    totalEmployerOrPlanPaidExcludingFund |-> 0,
    totalAnnualPayrollContributionsExcludingAdjustment |-> 0,
    totalAnnualPayrollContributions |-> 0,
    totalCareAndPayrollContributions |-> 0,
    totalCurrentYearFundContributions |-> 0,
    totalAnnualCost |-> 0 ]

\* The service object calculateSinglePlan starts from; coverage is the
\* index of the coverage object within the plan's coverage array.
NewService ==
  [ id |-> "", categoryId |-> "undefined", count |-> Whole(0), cost |-> 0,
    coverage |-> 0, deductibles |-> 0, copays |-> 0, coinsurance |-> 0,
    reimbursed |-> 0, expensesNotCovered |-> 0,
    combinedLimitAttained |-> FALSE ]

NewFamily ==
  [ dedsUsedByGroup |-> << >>, dedsAvailableByGroup |-> << >>,
    oopsUsedByGroup |-> << >>, oopsAvailableByGroup |-> << >>,
    combinedLimitsUsed |-> << >>, combinedLimitsAvailable |-> << >> ]

NewLocals ==
  [ list |-> 1, i |-> 1, j |-> 1,
    coveredCount |-> Whole(0), notCoveredCount |-> Whole(0),
    coveredCountLeft |-> Whole(0),
    costLeft |-> Undefined, singleUseCostMaxLeft |-> Undefined,
    deductible |-> Undefined, copay |-> Undefined, coinsurance |-> Undefined,
    combinedLimitId |-> "undefined", combinedLimitAvailable |-> Undefined,
    personDeductibleGroup |-> NoGroup, personOutOfPocketGroup |-> NoGroup,
    familyDeductibleGroup |-> NoGroup, familyOutOfPocketGroup |-> NoGroup ]

\* MPCE_VALIDATION before checkConfig is called: no errors, nothing thrown.
NewValidation == [ errors |-> << >>, outcome |-> "none", report |-> << >> ]

\* Nothing called yet on the configuration object.
NewSession(c) ==
  [ calls |-> 0, markups |-> 0, configBefore |-> c, previous |-> << >> ]

Init ==
  /\ config \in Configs
  /\ pc = "idle"
  /\ args = NoArgs
  /\ coverageLevelId = "undefined"
  /\ peopleServices = << >>
  /\ planIndex = 1
  /\ results = << >>
  /\ error = ""
  /\ result = NewResult("", "undefined")
  /\ service = NewService
  /\ familyAmounts = NewFamily
  /\ peopleAmounts = << >>
  /\ loc = NewLocals
  /\ session = NewSession(config)
  /\ validation = NewValidation

\* ------------------------------------------------------------------------
\* calculate

\* calculate() up to its loop over the region's plans: the markup, the
\* parameter checks, the coverage level and peopleServices.
CalculateCall(a) ==
  /\ args' = a
  /\ config' = maybeMarkupConfig(config)
  /\ LET level == determineCoverageLevel(config', a.spouse, a.childrenArray)
         invalid == ArgumentError(config', a)
         thrown ==
           IF invalid # "" THEN invalid
           ELSE IF level = "null"
             THEN "Unable to locate suitable coverageLevel."
           ELSE ""
     IN  /\ error' = thrown
         /\ pc' = IF thrown = "" THEN "plan" ELSE "threw"
         /\ coverageLevelId' = IF thrown = "" THEN level ELSE coverageLevelId
         /\ peopleServices' =
              IF thrown # "" THEN peopleServices
              ELSE (IF isNullOrUndefined(a.spouse)
                      THEN << a.primary >> ELSE << a.primary, a.spouse >>)
                   \o a.childrenArray
  /\ results' = << >>
  /\ planIndex' = 1
  /\ session' =
       [ calls |-> session.calls + 1,
         markups |-> session.markups
                     + (IF MarkupPerformed(config) THEN 1 ELSE 0),
         configBefore |-> config,
         previous |-> IF pc = "idle" THEN << >>
                      ELSE << [ args |-> args, results |-> results,
                                error |-> error ] >> ]
  /\ UNCHANGED << validation, result, service, familyAmounts, peopleAmounts,
                  loc >>

\* A call of calculate() on the configuration object.
Calculate ==
  /\ pc = "idle"
  /\ session.calls < MaxCalls
  /\ \E a \in Calls(config) : CalculateCall(a)

\* The plan calculate's loop is at.
planId == config.regions[args.regionId].plans[planIndex]

\* calculateSinglePlan up to the first calculateServicesInnerFunc: the
\* result and service objects and the family and person amounts.
BeginPlan ==
  /\ pc = "plan"
  /\ planIndex <= Len(config.regions[args.regionId].plans)
  /\ result' = NewResult(planId, coverageLevelId)
  /\ service' = NewService
  /\ familyAmounts' = NewFamilyAmounts(config, planId, args.regionId,
                                       args.statusId, coverageLevelId)
  /\ peopleAmounts' =
       [i \in 1..Len(peopleServices) |->
          NewPersonAmounts(config, planId, args.regionId, args.statusId,
                           coverageLevelId)]
  /\ loc' = NewLocals
  /\ pc' = "services"
  /\ UNCHANGED << validation, session, config, args, coverageLevelId, peopleServices, planIndex,
                  results, error >>

\* calculate's return once the loop over the plans is over.
Return ==
  /\ pc = "plan"
  /\ planIndex > Len(config.regions[args.regionId].plans)
  /\ pc' = "done"
  /\ UNCHANGED << validation, session, config, args, coverageLevelId, peopleServices, planIndex,
                  results, error, result, service, familyAmounts,
                  peopleAmounts, loc >>

\* ------------------------------------------------------------------------
\* calculateServicesInnerFunc

\* The two lists taken the other way round.
ServicesOrderSwapped(list) ==
  IF list = 1 THEN config.servicesNoDeductibleOrderByPlan[planId]
              ELSE config.servicesWithDeductibleOrderByPlan[planId]

\* SERVICES_ORDER_ARRAY of the first and of the second call.
ServicesOrder(list) ==
  IF list = 1 THEN config.servicesWithDeductibleOrderByPlan[planId]
              ELSE config.servicesNoDeductibleOrderByPlan[planId]

\* The next (i, j) from (i, j) on whose service the person uses; <<0, 0>>
\* when the loops run out.
RECURSIVE NextUsed(_, _, _, _)
NextUsed(people, order, i, j) ==
  IF i > Len(people) THEN << 0, 0 >>
  ELSE IF j > Len(order) THEN NextUsed(people, order, i + 1, 1)
  ELSE IF Has(people[i], order[j]) THEN << i, j >>
  ELSE NextUsed(people, order, i, j + 1)

\* The loops over the people and the services order, up to the next service
\* the person uses: the service object is set up and the raw expenses
\* added.  When the first call runs out the second begins; when the second
\* runs out the plan's totals follow.
NextService ==
  /\ pc = "services"
  /\ LET first == NextUsed(peopleServices, ServicesOrder(loc.list), loc.i, loc.j)
         list == IF first = << 0, 0 >> /\ loc.list = 1 THEN 2 ELSE loc.list
         at == IF list = loc.list THEN first
               ELSE NextUsed(peopleServices, ServicesOrder(2), 1, 1)
     IN  IF at = << 0, 0 >>
           THEN /\ pc' = "finish"
                /\ loc' = [loc EXCEPT !.list = 2]
                /\ UNCHANGED << validation, session, service, result >>
           ELSE LET serviceId == ServicesOrder(list)[at[2]]
                    count == Whole(peopleServices[at[1]][serviceId])
                    costsObjectId ==
                      IF Has(config.plans[planId], "costsObjectId")
                        THEN config.plans[planId].costsObjectId ELSE "costs"
                    cost == Get(config.services[serviceId][costsObjectId],
                                args.regionId)
                IN  /\ pc' = "rule"
                    /\ loc' = [loc EXCEPT !.list = list, !.i = at[1],
                                          !.j = at[2]]
                    /\ service' =
                         [service EXCEPT
                            !.categoryId =
                               GetS(config.services[serviceId], "categoryId"),
                            !.id = serviceId, !.count = count, !.cost = cost,
                            !.coverage = 1]
                    /\ result' =
                         [result EXCEPT !.totalRawExpenses =
                            JsAdd(@, RatTimes(count, cost))]
  /\ UNCHANGED << validation, session, config, args, coverageLevelId, peopleServices, planIndex,
                  results, error, familyAmounts, peopleAmounts >>

\* service.coverage: the coverage object the service is being evaluated
\* under.
Coverage == config.services[service.id].coverage[planId].array[service.coverage]

\* ------------------------------------------------------------------------
\* calculateService

\* The head of calculateService, up to its while loop.  (No service id of
\* the configurations starts with "additionalServices", so the swap of
\* cost and count is not taken.)  A dollarLimit writes
\* coveredCountFromDollarLimit into the coverage object of the
\* configuration.
BeginRule ==
  /\ pc = "rule"
  /\ LET rule == Coverage
         personAmounts == peopleAmounts[loc.i]
         plan == config.plans[planId]
         limitId == GetS(rule, "combinedLimitId")
         personCombinedLimitAvailable ==
           IF Has(personAmounts.combinedLimitsAvailable, limitId)
             THEN personAmounts.combinedLimitsAvailable[limitId] ELSE Infinity
         familyCombinedLimitAvailable ==
           IF Has(familyAmounts.combinedLimitsAvailable, limitId)
             THEN familyAmounts.combinedLimitsAvailable[limitId] ELSE Infinity
         fromDollarLimit == Rat(Get(rule, "dollarLimit"), service.cost)
         coveredCount ==
           IF GetB(rule, "notCovered") THEN Whole(0)
           ELSE IF Has(rule, "coveredCount")
             THEN RatMin(service.count, Whole(rule.coveredCount))
           ELSE IF Has(rule, "dollarLimit")
             THEN RatMin(service.count, fromDollarLimit)
           ELSE service.count
     IN  /\ config' =
              IF ~GetB(rule, "notCovered") /\ ~Has(rule, "coveredCount")
                 /\ Has(rule, "dollarLimit")
                THEN [config EXCEPT
                        !.services[service.id].coverage[planId]
                           .array[service.coverage] =
                          Put(@, "coveredCountFromDollarLimit", fromDollarLimit)]
                ELSE config
         /\ service' = [service EXCEPT
                          !.deductibles = 0, !.copays = 0, !.coinsurance = 0,
                          !.reimbursed = 0, !.expensesNotCovered = 0,
                          !.combinedLimitAttained = FALSE]
         /\ loc' = [loc EXCEPT
                      !.combinedLimitId = limitId,
                      !.combinedLimitAvailable =
                         IF Has(rule, "combinedLimitId")
                           THEN JsMin(personCombinedLimitAvailable,
                                      familyCombinedLimitAvailable)
                           ELSE Infinity,
                      !.coveredCount = coveredCount,
                      !.notCoveredCount = RatSub(service.count, coveredCount),
                      !.coveredCountLeft = coveredCount,
                      !.personDeductibleGroup =
                         GetS(plan.personDeductibleCategoryToGroup,
                              service.categoryId),
                      !.personOutOfPocketGroup =
                         GetS(plan.personOutOfPocketCategoryToGroup,
                              service.categoryId),
                      !.familyDeductibleGroup =
                         GetS(plan.familyDeductibleCategoryToGroup,
                              service.categoryId),
                      !.familyOutOfPocketGroup =
                         GetS(plan.familyOutOfPocketCategoryToGroup,
                              service.categoryId)]
  /\ pc' = "loop"
  /\ UNCHANGED << validation, session, args, coverageLevelId, peopleServices, planIndex, results,
                  error, result, familyAmounts, peopleAmounts >>

\* The condition of the while loop without its test of the combined limit.
UnitsLeftWhateverTheLimit == RatGt(loc.coveredCountLeft, Whole(0))

\* The condition of the while loop.
UnitsLeft ==
  RatGt(loc.coveredCountLeft, Whole(0)) /\ JsGt(loc.combinedLimitAvailable, 0)

\* The head of the loop body: the next unit, whole or partial.
BeginUnit ==
  /\ pc = "loop"
  /\ UnitsLeft
  /\ LET partial == IF RatGt(loc.coveredCountLeft, Whole(1))
                      THEN Whole(1) ELSE loc.coveredCountLeft
     IN  loc' = [loc EXCEPT
                   !.deductible = 0, !.copay = 0, !.coinsurance = 0,
                   !.coveredCountLeft = RatSub(@, partial),
                   !.costLeft = RatTimes(partial, service.cost),
                   !.singleUseCostMaxLeft =
                      OrElse(Get(Coverage, "singleUseCostMax"), Infinity)]
  /\ pc' = "beforeCopay"
  /\ UNCHANGED << validation, session, config, args, coverageLevelId, peopleServices, planIndex,
                  results, error, result, service, familyAmounts,
                  peopleAmounts >>

\* What a pass leaves behind: the amount paid comes off costLeft and
\* singleUseCostMaxLeft, and the person's and the family's amounts are the
\* adjusted ones.
AfterPass(paid, amountName, nextPc) ==
  /\ loc' = [loc EXCEPT ![amountName] = paid.amount,
                        !.costLeft = JsSub(@, paid.amount),
                        !.singleUseCostMaxLeft = JsSub(@, paid.amount)]
  /\ peopleAmounts' = [peopleAmounts EXCEPT ![loc.i] = paid.person]
  /\ familyAmounts' = paid.family
  /\ pc' = nextPc

SkipPass(nextPc) ==
  /\ pc' = nextPc
  /\ UNCHANGED << validation, session, loc, peopleAmounts, familyAmounts >>

DeductiblePaid ==
  calculateDeductible(loc.costLeft, loc.singleUseCostMaxLeft,
                      peopleAmounts[loc.i], loc.personDeductibleGroup,
                      loc.personOutOfPocketGroup,
                      familyAmounts, loc.familyDeductibleGroup,
                      loc.familyOutOfPocketGroup)

\* Pass 1: the deductible before the copay.
DeductibleBeforeCopay ==
  /\ pc = "beforeCopay"
  /\ IF GetS(Coverage, "deductible") = "beforeCopay"
       THEN AfterPass(DeductiblePaid, "deductible", "copay")
       ELSE SkipPass("copay")
  /\ UNCHANGED << validation, session, config, args, coverageLevelId, peopleServices, planIndex,
                  results, error, result, service >>

\* Pass 2: the copay.
Copay ==
  /\ pc = "copay"
  /\ IF Has(Coverage, "copay")
       THEN AfterPass(
              calculateCopay(loc.costLeft, loc.singleUseCostMaxLeft,
                             Coverage.copay,
                             GetB(Coverage, "copayNotTowardsOOPMax"),
                             peopleAmounts[loc.i], loc.personOutOfPocketGroup,
                             familyAmounts, loc.familyOutOfPocketGroup),
              "copay", "afterCopay")
       ELSE SkipPass("afterCopay")
  /\ UNCHANGED << validation, session, config, args, coverageLevelId, peopleServices, planIndex,
                  results, error, result, service >>

\* Pass 3: the deductible after the copay, the default.
DeductibleAfterCopay ==
  /\ pc = "afterCopay"
  /\ IF GetS(Coverage, "deductible")
          \in {"undefined", "afterCopay", "beforeCoinsurance"}
       THEN AfterPass(DeductiblePaid, "deductible", "coinsurance")
       ELSE SkipPass("coinsurance")
  /\ UNCHANGED << validation, session, config, args, coverageLevelId, peopleServices, planIndex,
                  results, error, result, service >>

\* Pass 4: the coinsurance.
Coinsurance ==
  /\ pc = "coinsurance"
  /\ IF Has(Coverage, "coinsurance")
       THEN AfterPass(
              calculateCoinsurance(
                loc.costLeft, loc.singleUseCostMaxLeft, Coverage.coinsurance,
                Get(Coverage, "coinsuranceMinDollar"),
                Get(Coverage, "coinsuranceMaxDollar"),
                GetB(Coverage, "coinsuranceNotTowardsOOPMax"),
                peopleAmounts[loc.i], loc.personOutOfPocketGroup,
                familyAmounts, loc.familyOutOfPocketGroup),
              "coinsurance", "reimburse")
       ELSE SkipPass("reimburse")
  /\ UNCHANGED << validation, session, config, args, coverageLevelId, peopleServices, planIndex,
                  results, error, result, service >>

\* The tail of the loop body: the plan reimburses what is left, up to the
\* combined limit, and the unit's amounts are added to the service.
Reimburse ==
  /\ pc = "reimburse"
  /\ LET reimbursed == JsMin(loc.combinedLimitAvailable, loc.costLeft)
         costLeft == JsSub(loc.costLeft, reimbursed)
     IN  /\ loc' = [loc EXCEPT
                      !.combinedLimitAvailable = JsSub(@, reimbursed),
                      !.costLeft = costLeft]
         /\ service' = [service EXCEPT
                          !.deductibles = JsAdd(@, loc.deductible),
                          !.copays = JsAdd(@, loc.copay),
                          !.coinsurance = JsAdd(@, loc.coinsurance),
                          !.reimbursed = JsAdd(@, reimbursed),
                          !.expensesNotCovered = JsAdd(@, costLeft)]
  /\ pc' = "loop"
  /\ UNCHANGED << validation, session, config, args, coverageLevelId, peopleServices, planIndex,
                  results, error, result, familyAmounts, peopleAmounts >>

\* combinedLimitsUsed[id] += x; combinedLimitsAvailable[id] -= x, when the
\* amounts track the limit.
ChargeCombinedLimit(amounts, id, x) ==
  IF id # "undefined" /\ Has(amounts.combinedLimitsUsed, id)
    THEN [amounts EXCEPT
            !.combinedLimitsUsed = Put(@, id, JsAdd(Get(@, id), x)),
            !.combinedLimitsAvailable = Put(@, id, JsSub(Get(@, id), x))]
    ELSE amounts

\* The exit of the while loop and the rest of calculateService, then the
\* rest of the body of the loop over the coverage array: the count left
\* for the next coverage object, the plan totals, and the break when the
\* combined limit is attained.
EndRule ==
  /\ pc = "loop"
  /\ ~UnitsLeft
  /\ LET rule == Coverage
         attained == ~JsGt(loc.combinedLimitAvailable, 0)
         notCoveredCount == RatAdd(loc.notCoveredCount, loc.coveredCountLeft)
         expensesNotCovered ==
           JsAdd(service.expensesNotCovered,
                 RatTimes(notCoveredCount, service.cost))
         count ==
           IF Has(rule, "coveredCount")
             THEN RatMax(Whole(0),
                         RatSub(service.count, Whole(rule.coveredCount)))
           ELSE IF Has(rule, "coveredCountFromDollarLimit")
             THEN RatMax(Whole(0),
                         RatSub(service.count, rule.coveredCountFromDollarLimit))
           ELSE service.count
         last == service.coverage
                   >= Len(config.services[service.id].coverage[planId].array)
     IN  /\ peopleAmounts' =
              [peopleAmounts EXCEPT ![loc.i] =
                 ChargeCombinedLimit(@, loc.combinedLimitId, service.reimbursed)]
         /\ familyAmounts' =
              ChargeCombinedLimit(familyAmounts, loc.combinedLimitId,
                                  service.reimbursed)
         /\ loc' = [loc EXCEPT !.notCoveredCount = notCoveredCount]
         /\ service' = [service EXCEPT
                          !.combinedLimitAttained = attained,
                          !.expensesNotCovered = expensesNotCovered,
                          !.count = count,
                          !.coverage = IF attained \/ last THEN @ ELSE @ + 1]
         /\ result' = [result EXCEPT
                         !.totalCopays = JsAdd(@, service.copays),
                         !.totalCoinsurance = JsAdd(@, service.coinsurance),
                         !.totalFundEligibleCosts =
                            JsAdd(@, IF GetB(rule, "eligibleForFund")
                                       THEN JsAdd(JsAdd(service.deductibles,
                                                        service.copays),
                                                  service.coinsurance)
                                       ELSE 0)]
         /\ pc' = IF attained \/ last THEN "endService" ELSE "rule"
  /\ UNCHANGED << validation, session, config, args, coverageLevelId, peopleServices, planIndex,
                  results, error >>

\* After the loop over the coverage array: the expenses not covered of the
\* last coverage object evaluated go to the plan totals.
EndService ==
  /\ pc = "endService"
  /\ result' = [result EXCEPT
                  !.totalFundEligibleCosts =
                     JsAdd(@, IF GetB(Coverage, "eligibleForFund")
                                THEN service.expensesNotCovered ELSE 0),
                  !.totalExpensesNotCovered =
                     JsAdd(@, service.expensesNotCovered)]
  /\ loc' = [loc EXCEPT !.j = @ + 1]
  /\ pc' = "services"
  /\ UNCHANGED << validation, session, config, args, coverageLevelId, peopleServices, planIndex,
                  results, error, service, familyAmounts, peopleAmounts >>

\* ------------------------------------------------------------------------
\* calculateSinglePlan: the totals

\* The sum of peopleAmounts[i].totalDeductibles, added in order.
RECURSIVE SumDeductibles(_, _)
SumDeductibles(amounts, n) ==
  IF n = 0 THEN 0
  ELSE JsAdd(SumDeductibles(amounts, n - 1), amounts[n].totalDeductibles)

\* planFundAmount: the fundAmountMap lookup, zero without a fundAmountMap.
PlanFundAmount(plan, regionId, statusId, level) ==
  IF Has(plan, "fundAmountMap")
    THEN AmountMapLookup(plan.fundAmountMap, regionId, statusId, level)
    ELSE 0

\* The payroll contributions of the plan at the coverage level: keyed by
\* region first when the region is a key.
PayrollContributionsByLevelOnly(levelCosts, regionId, statusId, level) ==
  OrElse(Get(levelCosts[level], statusId), 0)

PayrollContributions(levelCosts, regionId, statusId, level) ==
  IF Has(levelCosts, regionId)
    THEN OrElse(Get(levelCosts[regionId][level], statusId), 0)
    ELSE OrElse(Get(levelCosts[level], statusId), 0)

\* The properties the final loop rounds to the cent.
resultsToRound ==
  { "totalCopays", "totalCoinsurance", "totalExpensesNotCovered",
    "totalRawExpenses", "totalFundEligibleCosts", "totalFundAmountOffset",
    "planFundPaid", "planFundAdditionalMatchPaid", "planRolloverFundPaid",
    "voluntaryFundPaid", "fundCarryoverBalance",
    "totalMedicalAndDrugCostsExcludingDeductibles", "totalMedicalAndDrugCosts",
    "totalMedicalAndDrugCostsLessFundOffset",
    "totalEmployerOrPlanPaidExcludingFund",
    "totalAnnualPayrollContributionsExcludingAdjustment",
    "totalAnnualPayrollContributions", "totalCareAndPayrollContributions",
    "totalCurrentYearFundContributions", "totalAnnualCost" }

\* The result of calculateSinglePlan from the result the services left.
SinglePlanResult(r, plan, levelCosts, regionId, statusId, level, amounts, fundRolloverAmount, voluntaryFundContributionAmount, premiumAdjustmentAmount, planFundAdditionalMatchAmount) ==
  LET totalDeductibles ==
        JsAdd(r.totalDeductibles, SumDeductibles(amounts, Len(amounts)))
      planFundAmount == PlanFundAmount(plan, regionId, statusId, level)
      totalFundAmountAvailable ==
        JsAdd(JsAdd(JsAdd(planFundAmount, planFundAdditionalMatchAmount),
                    fundRolloverAmount),
              voluntaryFundContributionAmount)
      totalFundAmountOffset ==
        JsMin(r.totalFundEligibleCosts, totalFundAmountAvailable)
      planFundPaid == JsMin(totalFundAmountOffset, planFundAmount)
      planFundAdditionalMatchPaid ==
        JsMin(JsSub(totalFundAmountOffset, planFundPaid),
              planFundAdditionalMatchAmount)
      rolloverFundPaid ==
        JsMin(JsSub(totalFundAmountOffset,
                    JsAdd(planFundPaid, planFundAdditionalMatchPaid)),
              fundRolloverAmount)
      voluntaryFundPaid ==
        JsSub(totalFundAmountOffset,
              JsAdd(JsAdd(planFundPaid, planFundAdditionalMatchPaid),
                    rolloverFundPaid))
      excludingDeductibles ==
        JsAdd(JsAdd(r.totalCopays, r.totalCoinsurance),
              r.totalExpensesNotCovered)
      totalMedicalAndDrugCosts ==
        JsAdd(JsAdd(JsAdd(totalDeductibles, r.totalCopays), r.totalCoinsurance),
              r.totalExpensesNotCovered)
      lessFundOffset == JsSub(totalMedicalAndDrugCosts, totalFundAmountOffset)
      excludingAdjustment ==
        PayrollContributions(levelCosts, regionId, statusId, level)
      payrollContributions ==
        JsMax(0, JsAdd(excludingAdjustment, premiumAdjustmentAmount))
      careAndPayroll == JsAdd(lessFundOffset, payrollContributions)
      computed ==
        Put([r EXCEPT
               !.totalDeductibles = totalDeductibles,
               !.totalFundAmountOffset = totalFundAmountOffset,
               !.planFundPaid = planFundPaid,
               !.planFundAdditionalMatchPaid = planFundAdditionalMatchPaid,
               !.voluntaryFundPaid = voluntaryFundPaid,
               !.fundCarryoverBalance =
                  JsSub(totalFundAmountAvailable, totalFundAmountOffset),
               !.totalMedicalAndDrugCostsExcludingDeductibles =
                  excludingDeductibles,
               !.totalMedicalAndDrugCosts = totalMedicalAndDrugCosts,
               !.totalMedicalAndDrugCostsLessFundOffset = lessFundOffset,
               !.totalEmployerOrPlanPaidExcludingFund =
                  JsSub(r.totalRawExpenses, totalMedicalAndDrugCosts),
               !.totalAnnualPayrollContributionsExcludingAdjustment =
                  excludingAdjustment,
               !.totalAnnualPayrollContributions = payrollContributions,
               !.totalCareAndPayrollContributions = careAndPayroll,
               !.totalCurrentYearFundContributions =
                  voluntaryFundContributionAmount,
               !.totalAnnualCost =
                  JsAdd(careAndPayroll, voluntaryFundContributionAmount)],
            "rolloverFundPaid", rolloverFundPaid)
  IN  [f \in DOMAIN computed |->
         IF f \in resultsToRound THEN RoundCents(Fine(computed[f]))
                                 ELSE computed[f]]

\* The rest of calculateSinglePlan after the two calls of
\* calculateServicesInnerFunc, and the push of its result onto results.
FinishPlan ==
  /\ pc = "finish"
  /\ result' =
       SinglePlanResult(
         result, config.plans[planId], config.coverageLevelCostsPerPlan[planId],
         args.regionId, args.statusId, coverageLevelId, peopleAmounts,
         AmountForPlan(args.amounts.fundRolloverAmounts, planId),
         AmountForPlan(args.amounts.voluntaryFundContributionAmounts, planId),
         AmountForPlan(args.amounts.premiumAdjustmentAmounts, planId),
         AmountForPlan(args.amounts.planFundAdditionalMatchAmounts, planId))
  /\ results' = Append(results, result')
  /\ planIndex' = planIndex + 1
  /\ pc' = "plan"
  /\ UNCHANGED << validation, session, config, args, coverageLevelId, peopleServices, error,
                  service, familyAmounts, peopleAmounts, loc >>

\* ------------------------------------------------------------------------
\* The specification

Next ==
  \/ Calculate
  \/ BeginPlan
  \/ NextService
  \/ BeginRule
  \/ BeginUnit
  \/ DeductibleBeforeCopay
  \/ Copay
  \/ DeductibleAfterCopay
  \/ Coinsurance
  \/ Reimburse
  \/ EndRule
  \/ EndService
  \/ FinishPlan
  \/ Return

Spec == Init /\ [][Next]_vars

\* ------------------------------------------------------------------------
\* Several calls of calculate() on the same configuration object

\* The caller calls calculate() again with the arguments of the call that
\* has just returned or thrown, and keeps what that call gave.
CalculateAgain ==
  /\ pc \in { "done", "threw" }
  /\ session.calls < MaxCalls
  /\ session.previous = << >>
  /\ CalculateCall(args)

\* The caller is done with the outcome of the call; the engine holds
\* nothing of it, the configuration object stays as the call left it.
NextCall ==
  /\ pc \in { "done", "threw" }
  /\ session.calls < MaxCalls
  /\ pc' = "idle"
  /\ args' = NoArgs
  /\ coverageLevelId' = "undefined"
  /\ peopleServices' = << >>
  /\ planIndex' = 1
  /\ results' = << >>
  /\ error' = ""
  /\ result' = NewResult("", "undefined")
  /\ service' = NewService
  /\ familyAmounts' = NewFamily
  /\ peopleAmounts' = << >>
  /\ loc' = NewLocals
  /\ session' = [session EXCEPT !.configBefore = config, !.previous = << >>]
  /\ UNCHANGED << config, validation >>

NextCalls ==
  \/ Next
  \/ CalculateAgain
  \/ NextCall

SpecCalls == Init /\ [][NextCalls]_vars

\* ------------------------------------------------------------------------
\* checkConfig on its own: configurations with and without faults

\* The largest length of an order array drawn for the validation.
MaxOrderLen == 2

\* An object without one of its properties.
Without(obj, k) == [x \in (DOMAIN obj) \ {k} |-> obj[x]]

\* The sequences over S of length at most n.
RECURSIVE SeqsUpTo(_, _)
SeqsUpTo(S, n) ==
  IF n = 0 THEN {<< >>}
  ELSE LET shorter == SeqsUpTo(S, n - 1)
       IN  shorter \cup {Append(q, x) : q \in shorter, x \in S}

\* The configuration the faults are put into: it has a combined limit, and
\* coverage objects that name it.
FaultBase == WithDisplayData(LabConfig("combined"))

\* statuses and statusesOrder drawn apart: the ids of the object, and an
\* order array that may leave one out, name one twice, name an unknown one
\* or hold a value that is not a string.  "constructor" is an id as any.
StatusFaults ==
  { [FaultBase EXCEPT !.statuses = [id \in ids |-> [description |-> id]],
                      !.statusesOrder = order] :
      ids \in (SUBSET {"fullTime", "constructor"}) \ {{}},
      order \in SeqsUpTo({"fullTime", "constructor", NotAString}, MaxOrderLen) }

\* The groups of personOutOfPocketMaximums drawn: "general" absent, plain or
\* with categories; a group "oop_rx" and a group "oop_other" absent or with
\* categories absent, empty, known or unknown.
GroupFaults ==
  LET generals == { << >>, << [amount |-> 600] >>,
                    << [amount |-> 600, categories |-> << "outpatient" >>] >> }
      rxs == { << >>, << [amount |-> 200] >>,
               << [amount |-> 200, categories |-> << >>] >>,
               << [amount |-> 200, categories |-> << "drugs" >>] >>,
               << [amount |-> 200, categories |-> << "bogus" >>] >> }
      others == { << >>, << [amount |-> 100, categories |-> << "drugs" >>] >>,
                  << [amount |-> 100, categories |-> << "outpatient" >>] >> }
      Groups(general, rx, other) ==
        [g \in (IF general = << >> THEN {} ELSE {"general"})
               \cup (IF rx = << >> THEN {} ELSE {"oop_rx"})
               \cup (IF other = << >> THEN {} ELSE {"oop_other"}) |->
           IF g = "general" THEN general[1]
           ELSE IF g = "oop_rx" THEN rx[1] ELSE other[1]]
  IN  { [FaultBase EXCEPT !.plans.P.personOutOfPocketMaximums =
                             Groups(general, rx, other)] :
          general \in generals, rx \in rxs, other \in others }

\* Other faults: no combinedLimits (an optional property) with and without
\* a coverage object that names a combined limit; no plansOrder; a service
\* in two categories; a service in no category.
OtherFaults ==
  { Without(FaultBase, "combinedLimits"),
    Without(WithDisplayData(LabConfig("base")), "combinedLimits"),
    Without(FaultBase, "plansOrder"),
    [FaultBase EXCEPT !.categories.drugs.orderedContents = << "rx", "visit" >>],
    [FaultBase EXCEPT !.categories.drugs.orderedContents = << >>] }

ValidationInputs == Configs \cup StatusFaults \cup GroupFaults \cup OtherFaults

InitValidation ==
  /\ config \in ValidationInputs
  /\ pc = "idle"
  /\ args = NoArgs
  /\ coverageLevelId = "undefined"
  /\ peopleServices = << >>
  /\ planIndex = 1
  /\ results = << >>
  /\ error = ""
  /\ result = NewResult("", "undefined")
  /\ service = NewService
  /\ familyAmounts = NewFamily
  /\ peopleAmounts = << >>
  /\ loc = NewLocals
  /\ session = NewSession(config)
  /\ validation = NewValidation

\* MPCE_VALIDATION.checkConfig(config)
CheckConfig ==
  /\ pc = "idle"
  /\ validation.outcome = "none"
  /\ validation' = checkConfig(config)
  /\ UNCHANGED << config, pc, args, coverageLevelId, peopleServices, planIndex,
                  results, error, result, service, familyAmounts,
                  peopleAmounts, loc, session >>

NextValidation == CheckConfig

SpecValidation == InitValidation /\ [][NextValidation]_vars

\* ------------------------------------------------------------------------
\* The estimator on its own: FSAE_VALIDATION.checkConfig and
\* FSAE_ENGINE.calculate on each configuration with each set of arguments.
\* Amounts passed in are whole numbers of cents.

\* The largest number of dependents passed in.
MaxDependents == 2

FsaeAccountTypeIds(c) == (DOMAIN c.accountTypes) \cup { "", "XSA" }

FsaeFilingStatusIds ==
  { FilingStatusIds[i] : i \in 1..Len(FilingStatusIds) } \cup { "", "widowed" }

\* 0, 1000, 60000, the Social Security limit and a cent less, 200000 and
\* 500000 dollars.
FsaeIncomes ==
  { 0, 100000, 6000000, 11849999, 11850000, 20000000, 50000000 }

\* Nothing, 4 cents, 150, 1000, 2600 and 10000 dollars, and two costs in
\* an array.
FsaeCosts ==
  { [amount |-> 0], [amount |-> 4], [amount |-> 15000], [amount |-> 100000],
    [amount |-> 260000], [amount |-> 1000000],
    [array |-> << 100000, 5 >>] }

FsaeCalls(c) ==
  [ accountTypeId : FsaeAccountTypeIds(c),
    filingStatusId : FsaeFilingStatusIds,
    numberOfDependents : { 0, MaxDependents },
    primaryAnnualIncome : FsaeIncomes,
    spouseAnnualIncome : { 0, 4000000 },
    rolloverAmount : { 0, 50000 },
    costAmountOrAmounts : FsaeCosts ]

InitFsae ==
  /\ config \in FsaeConfigs
  /\ pc = "idle"
  /\ args \in FsaeCalls(config)
  /\ coverageLevelId = "undefined"
  /\ peopleServices = << >>
  /\ planIndex = 1
  /\ results = << >>
  /\ error = ""
  /\ result = NewResult("", "undefined")
  /\ service = NewService
  /\ familyAmounts = NewFamily
  /\ peopleAmounts = << >>
  /\ loc = NewLocals
  /\ session = NewSession(config)
  /\ validation = NewValidation

\* FSAE_VALIDATION.checkConfig(config)
FsaeValidate ==
  /\ validation.outcome = "none"
  /\ validation' = FsaeCheckConfig(config)
  /\ UNCHANGED << config, pc, args, coverageLevelId, peopleServices, planIndex,
                  results, error, result, service, familyAmounts,
                  peopleAmounts, loc, session >>

\* FSAE_ENGINE.calculate(config, accountTypeId, ...): it throws on an id it
\* does not know, and otherwise returns the rounded results; loc keeps the
\* amounts before rounding.
FsaeCalculate ==
  /\ pc = "idle"
  /\ IF FsaeArgumentError(config, args) # ""
       THEN /\ pc' = "threw"
            /\ error' = FsaeArgumentError(config, args)
            /\ UNCHANGED << result, loc >>
       ELSE /\ pc' = "done"
            /\ result' = FsaeResults(config, args)
            /\ loc' = FsaeSavings(config, args)
            /\ UNCHANGED error
  /\ UNCHANGED << config, args, coverageLevelId, peopleServices, planIndex,
                  results, service, familyAmounts, peopleAmounts, session,
                  validation >>

NextFsae == FsaeValidate \/ FsaeCalculate

SpecFsae == InitFsae /\ [][NextFsae]_vars

\* ------------------------------------------------------------------------
\* determineCoverageLevel on its own: every table of three coverage levels
\* in every order, and the published table, against every household.

CoverageLevelIds == { "narrow", "middle", "wide" }

CoverageLevelTables ==
  [ CoverageLevelIds ->
      [ spouse : BOOLEAN, maxNumChildren : (0..MaxChildren) \cup {Infinity} ] ]

\* The sequences listing every id of the set once.
Orderings(ids) ==
  { order \in [1..Cardinality(ids) -> ids] :
      \A i, j \in 1..Cardinality(ids) : i # j => order[i] # order[j] }

CoverageConfigs ==
  { [ coverageLevels |-> table, coverageLevelsOrder |-> order ] :
      table \in CoverageLevelTables, order \in Orderings(CoverageLevelIds) }
  \cup { [ coverageLevels |-> PublishedCoverageLevels,
           coverageLevelsOrder |-> PublishedCoverageLevelsOrder ] }

InitCoverage ==
  /\ config \in CoverageConfigs
  /\ pc = "idle"
  /\ args = NoArgs
  /\ coverageLevelId = "undefined"
  /\ peopleServices = << >>
  /\ planIndex = 1
  /\ results = << >>
  /\ error = ""
  /\ result = NewResult("", "undefined")
  /\ service = NewService
  /\ familyAmounts = NewFamily
  /\ peopleAmounts = << >>
  /\ loc = NewLocals
  /\ session = NewSession(config)
  /\ validation = NewValidation

\* One call of determineCoverageLevel: it returns a level or throws.
DetermineCoverageLevel ==
  /\ pc = "idle"
  /\ \E spouse \in {Null, << >>}, numChildren \in 0..(MaxChildren + 1) :
       LET childrenArray == [c \in 1..numChildren |-> << >>]
           level == determineCoverageLevel(config, spouse, childrenArray)
       IN  /\ args' = [args EXCEPT !.spouse = spouse,
                                   !.childrenArray = childrenArray]
           /\ coverageLevelId' = IF level = "null" THEN coverageLevelId
                                                   ELSE level
           /\ error' = IF level = "null"
                         THEN "Unable to locate suitable coverageLevel."
                         ELSE ""
           /\ pc' = IF level = "null" THEN "threw" ELSE "returned"
  /\ UNCHANGED << validation, session, config, peopleServices, planIndex, results, result, service,
                  familyAmounts, peopleAmounts, loc >>

NextCoverage == DetermineCoverageLevel

SpecCoverage == InitCoverage /\ [][NextCoverage]_vars

\* ------------------------------------------------------------------------
\* Properties

\* a and b are the same number.
NumEq(a, b) == ToNum(a) # NaN /\ ToNum(b) # NaN /\ ToNum(a) = ToNum(b)

\* A plan evaluation is under way: the amounts are those of planId.
InPlan ==
  pc \in { "services", "rule", "loop", "beforeCopay", "copay", "afterCopay",
           "coinsurance", "reimburse", "endService", "finish" }

\* The plan's budgets are set up and no service has been looked at yet.
AtPlanStart == pc = "services" /\ loc = NewLocals

\* The family's amounts and every person's.
AllAmounts == {familyAmounts} \cup {peopleAmounts[i] : i \in DOMAIN peopleAmounts}

\* The available budgets of one amounts object.
Availables(amounts) ==
  {amounts.dedsAvailableByGroup[g] : g \in DOMAIN amounts.dedsAvailableByGroup}
  \cup
  {amounts.oopsAvailableByGroup[g] : g \in DOMAIN amounts.oopsAvailableByGroup}
  \cup
  {amounts.combinedLimitsAvailable[id] :
     id \in DOMAIN amounts.combinedLimitsAvailable}

\* C1: during a plan evaluation no available budget (deductible group,
\* out-of-pocket group or combined limit, of a person or of the family) is
\* ever negative, after each deductible, copay and coinsurance pass.
C1_AvailableNeverNegative ==
  InPlan => \A amounts \in AllAmounts :
              \A available \in Availables(amounts) : ~JsGt(0, available)

\* The cap a limit of the configuration gives a group: its amount, else
\* its amountMap by region, by status, or by coverage level alone.
ResolvedCap(limit) ==
  IF Has(limit, "amount") THEN limit.amount
  ELSE AmountMapLookup(limit.amountMap, args.regionId, args.statusId,
                       coverageLevelId)

\* used + available is the cap, for every group of the limit object the
\* configuration gives a cap.
GroupsBalance(usedByGroup, availableByGroup, limitObjectName) ==
  Has(config.plans[planId], limitObjectName) =>
    \A group \in DOMAIN config.plans[planId][limitObjectName] :
      LET cap == ResolvedCap(config.plans[planId][limitObjectName][group])
      IN  cap # Undefined =>
            NumEq(JsAdd(Get(usedByGroup, group), Get(availableByGroup, group)),
                  cap)

CombinedLimitsBalance(amounts, limitName) ==
  \A id \in DOMAIN config.combinedLimits :
    Has(config.combinedLimits[id], limitName) =>
      NumEq(JsAdd(Get(amounts.combinedLimitsUsed, id),
                  Get(amounts.combinedLimitsAvailable, id)),
            config.combinedLimits[id][limitName])

\* C2: during a plan evaluation, for every person and the family and every
\* deductible group, out-of-pocket group and combined limit that has a
\* budget, used + available is the budget's initial cap after every step.
C2_UsedPlusAvailableIsCap ==
  InPlan =>
    /\ GroupsBalance(familyAmounts.dedsUsedByGroup,
                     familyAmounts.dedsAvailableByGroup, "familyDeductibles")
    /\ GroupsBalance(familyAmounts.oopsUsedByGroup,
                     familyAmounts.oopsAvailableByGroup,
                     "familyOutOfPocketMaximums")
    /\ CombinedLimitsBalance(familyAmounts, "familyReimburseLimit")
    /\ \A i \in DOMAIN peopleAmounts :
         /\ GroupsBalance(peopleAmounts[i].dedsUsedByGroup,
                          peopleAmounts[i].dedsAvailableByGroup,
                          "personDeductibles")
         /\ GroupsBalance(peopleAmounts[i].oopsUsedByGroup,
                          peopleAmounts[i].oopsAvailableByGroup,
                          "personOutOfPocketMaximums")
         /\ CombinedLimitsBalance(peopleAmounts[i], "personReimburseLimit")

\* C3: in every returned plan result, totalDeductibles + totalCopays +
\* totalCoinsurance + totalExpensesNotCovered +
\* totalEmployerOrPlanPaidExcludingFund = totalRawExpenses.
C3_TotalsAddUpToRawExpenses ==
  \A k \in DOMAIN results :
    NumEq(JsAdd(JsAdd(JsAdd(JsAdd(results[k].totalDeductibles,
                                  results[k].totalCopays),
                            results[k].totalCoinsurance),
                      results[k].totalExpensesNotCovered),
                results[k].totalEmployerOrPlanPaidExcludingFund),
          results[k].totalRawExpenses)

\* The caller's per-plan amounts are absent or not negative.
CallerAmountsNonNegative ==
  \A name \in DOMAIN args.amounts :
    \/ isNullOrUndefined(args.amounts[name])
    \/ \A p \in DOMAIN args.amounts[name] : args.amounts[name][p] >= 0

\* The dollar fields of a plan result.
DollarFields(r) == (DOMAIN r) \ { "planId", "coverageLevelId" }

\* C4: for caller amounts that are not negative, every dollar field of
\* every plan result is >= 0; in particular
\* totalEmployerOrPlanPaidExcludingFund, also when a service's coverage is
\* a sequence of rules.
C4_DollarFieldsNonNegative ==
  CallerAmountsNonNegative =>
    \A k \in DOMAIN results :
      \A f \in DollarFields(results[k]) : JsGe(results[k][f], 0)

\* Scenario S4: the published configuration, region AZ, a household of
\* primary, spouse and children, the primary using emergencyRoomVisit once
\* and nobody anything else; the PPO_300 result is in.
ScenarioS4 ==
  /\ Has(config.plans, "PPO_300")
  /\ pc \in { "plan", "services", "rule", "loop", "beforeCopay", "copay",
              "afterCopay", "coinsurance", "reimburse", "endService",
              "finish", "done" }
  /\ args.regionId = "AZ"
  /\ coverageLevelId = "employeeAndFamily"
  /\ args.primary = [s \in {"emergencyRoomVisit"} |-> 1]
  /\ args.spouse = << >>
  /\ \A c \in DOMAIN args.childrenArray : args.childrenArray[c] = << >>
  /\ Len(results) >= 1
  /\ results[1].planId = "PPO_300"

\* C5 as stated: in scenario S4 the PPO_300 result has copay 100,
\* deductible 900, coinsurance 64.10 and expenses not covered 0.
C5_S4AsStated ==
  ScenarioS4 =>
    /\ results[1].totalCopays = 10000
    /\ results[1].totalDeductibles = 90000
    /\ results[1].totalCoinsurance = 6410
    /\ results[1].totalExpensesNotCovered = 0

\* C5: in scenario S4 the PPO_300 result has copay 100, deductible 300
\* (the primary's person deductible, below the family's 900), coinsurance
\* 124.10 (10% of 1240.96) and expenses not covered 0.
C5_S4PersonDeductible ==
  ScenarioS4 =>
    /\ results[1].totalCopays = 10000
    /\ results[1].totalDeductibles = 30000
    /\ results[1].totalCoinsurance = 12410
    /\ results[1].totalExpensesNotCovered = 0

C5_S4Reached == ScenarioS4 /\ pc = "done" /\ Len(args.childrenArray) = 1

\* The amounts calculateSinglePlan was given for the plan of a result.
CallerAmount(name, r) == AmountForPlan(args.amounts[name], r.planId)

\* The plan fund of a result's plan: the fundAmountMap lookup at the
\* active coverage level, zero for a plan without a fundAmountMap.
PlanFundOf(r) ==
  PlanFundAmount(config.plans[r.planId], args.regionId, args.statusId,
                 coverageLevelId)

\* The plan of the result declares a fundAmountMap whose lookup is
\* undefined at the active coverage level.
FundLookupUndefined(r) ==
  Has(config.plans[r.planId], "fundAmountMap") /\ PlanFundOf(r) = Undefined

\* C6: for caller amounts that are not negative, in every plan result
\* totalFundAmountOffset = min(totalFundEligibleCosts, plan fund +
\* additional match + rollover + voluntary contribution), so it exceeds
\* neither.
C6_FundOffsetIsMin ==
  CallerAmountsNonNegative =>
    \A k \in DOMAIN results :
      LET r == results[k]
          available ==
            JsAdd(JsAdd(JsAdd(PlanFundOf(r),
                              CallerAmount("planFundAdditionalMatchAmounts", r)),
                        CallerAmount("fundRolloverAmounts", r)),
                  CallerAmount("voluntaryFundContributionAmounts", r))
      IN  /\ NumEq(r.totalFundAmountOffset,
                   JsMin(r.totalFundEligibleCosts, available))
          /\ JsGe(r.totalFundEligibleCosts, r.totalFundAmountOffset)
          /\ JsGe(available, r.totalFundAmountOffset)

\* C7: in every plan result planFundPaid + planFundAdditionalMatchPaid +
\* rolloverFundPaid + voluntaryFundPaid = totalFundAmountOffset, and a
\* later source pays only when every earlier source has paid in full
\* (plan fund, additional match, rollover, voluntary).
C7_FundSourcesDrainInOrder ==
  CallerAmountsNonNegative =>
    \A k \in DOMAIN results :
      LET r == results[k]
          planFullyPaid == NumEq(r.planFundPaid, PlanFundOf(r))
          matchFullyPaid ==
            NumEq(r.planFundAdditionalMatchPaid,
                  CallerAmount("planFundAdditionalMatchAmounts", r))
          rolloverFullyPaid ==
            NumEq(r.rolloverFundPaid, CallerAmount("fundRolloverAmounts", r))
      IN  /\ NumEq(JsAdd(JsAdd(JsAdd(r.planFundPaid,
                                     r.planFundAdditionalMatchPaid),
                               r.rolloverFundPaid),
                         r.voluntaryFundPaid),
                   r.totalFundAmountOffset)
          /\ ~NumEq(r.planFundAdditionalMatchPaid, 0) => planFullyPaid
          /\ ~NumEq(r.rolloverFundPaid, 0) => planFullyPaid /\ matchFullyPaid
          /\ ~NumEq(r.voluntaryFundPaid, 0) =>
               planFullyPaid /\ matchFullyPaid /\ rolloverFullyPaid

\* C8: when the fundAmountMap lookup is undefined at the active coverage
\* level the plan fund counts as zero: totalFundAmountOffset, the four
\* fund-paid fields and fundCarryoverBalance are numbers computed from the
\* caller's amounts alone.
C8_UndefinedPlanFundIsZero ==
  \A k \in DOMAIN results :
    LET r == results[k]
        available ==
          JsAdd(JsAdd(CallerAmount("planFundAdditionalMatchAmounts", r),
                      CallerAmount("fundRolloverAmounts", r)),
                CallerAmount("voluntaryFundContributionAmounts", r))
    IN  FundLookupUndefined(r) =>
          /\ \A f \in { "totalFundAmountOffset", "planFundPaid",
                        "planFundAdditionalMatchPaid", "rolloverFundPaid",
                        "voluntaryFundPaid", "fundCarryoverBalance" } :
               IsFinite(ToNum(r[f]))
          /\ r.planFundPaid = 0
          /\ NumEq(r.totalFundAmountOffset,
                   JsMin(r.totalFundEligibleCosts, available))
          /\ NumEq(r.fundCarryoverBalance,
                   JsSub(available, r.totalFundAmountOffset))

\* C9: at the start of a plan evaluation the available budget of every
\* person deductible group and every person out-of-pocket group is the
\* limit's amount, else its amountMap by region, by status, or by coverage
\* level alone, as for the family's groups.
C9_PersonBudgetsResolved ==
  AtPlanStart =>
    \A i \in DOMAIN peopleAmounts :
      /\ Has(config.plans[planId], "personDeductibles") =>
           \A group \in DOMAIN config.plans[planId].personDeductibles :
             Get(peopleAmounts[i].dedsAvailableByGroup, group)
               = ResolvedCap(config.plans[planId].personDeductibles[group])
      /\ Has(config.plans[planId], "personOutOfPocketMaximums") =>
           \A group \in DOMAIN config.plans[planId].personOutOfPocketMaximums :
             Get(peopleAmounts[i].oopsAvailableByGroup, group)
               = ResolvedCap(
                   config.plans[planId].personOutOfPocketMaximums[group])

\* The household of the call.
HasSpouse == ~isNullOrUndefined(args.spouse)
NumChildren == Len(args.childrenArray)

\* The level's spouse flag accommodates the household and its
\* maxNumChildren is at least the child count.
Accommodates(level) ==
  (HasSpouse => level.spouse) /\ JsGe(level.maxNumChildren, NumChildren)

\* Level a covers no household that level b does not, and is not b.
Narrower(a, b) ==
  /\ a.spouse => b.spouse
  /\ a.maxNumChildren <= b.maxNumChildren
  /\ a # b

LevelAt(i) == config.coverageLevels[config.coverageLevelsOrder[i]]

\* The ordering invariant of coverageLevelsOrder: non-decreasing in
\* (spouse, maxNumChildren), no level comes after a level it is narrower
\* than.
OrderingInvariant ==
  \A i, j \in DOMAIN config.coverageLevelsOrder :
    i < j => ~Narrower(LevelAt(j), LevelAt(i))

\* C10: determineCoverageLevel returns the first level of
\* coverageLevelsOrder that accommodates the household, no earlier level
\* doing so; under the ordering invariant no accommodating level is
\* narrower than it; and it throws exactly when no level accommodates the
\* household.
C10_FirstAccommodatingLevel ==
  /\ pc = "returned" =>
       \E i \in DOMAIN config.coverageLevelsOrder :
         /\ config.coverageLevelsOrder[i] = coverageLevelId
         /\ Accommodates(LevelAt(i))
         /\ \A j \in 1..(i - 1) : ~Accommodates(LevelAt(j))
  /\ pc = "returned" /\ OrderingInvariant =>
       \A j \in DOMAIN config.coverageLevelsOrder :
         Accommodates(LevelAt(j))
           => ~Narrower(LevelAt(j), config.coverageLevels[coverageLevelId])
  /\ pc = "threw" =>
       /\ \A j \in DOMAIN config.coverageLevelsOrder : ~Accommodates(LevelAt(j))
       /\ coverageLevelId = "undefined"

\* A household with a spouse and a child gets a level that is not the
\* first of an order obeying the invariant, a wider level accommodating it
\* too.
C10_LaterLevelReturned ==
  /\ pc = "returned"
  /\ OrderingInvariant
  /\ HasSpouse
  /\ NumChildren = 1
  /\ coverageLevelId # config.coverageLevelsOrder[1]
  /\ ~Accommodates(LevelAt(1))
  /\ \E j \in DOMAIN config.coverageLevelsOrder :
       /\ Accommodates(LevelAt(j))
       /\ Narrower(config.coverageLevels[coverageLevelId], LevelAt(j))


\* ------------------------------------------------------------------------
\* The order of evaluation within a plan

\* Position p comes before position q, or is q, in the order: first call
\* before second, then person by person, then service by service.
LexLe(p, q) ==
  \/ p[1] < q[1]
  \/ p[1] = q[1] /\ p[2] < q[2]
  \/ p[1] = q[1] /\ p[2] = q[2] /\ p[3] <= q[3]

\* The positions of the two passes the household has a service event at.
UsedPositions ==
  { p \in (1..2) \X (1..Len(peopleServices)) \X (1..Cardinality(DOMAIN config.services)) :
      /\ p[3] <= Len(ServicesOrder(p[1]))
      /\ Has(peopleServices[p[2]], ServicesOrder(p[1])[p[3]]) }

\* Some coverage object of the service under the plan has a deductible.
WithDeductible(serviceId) ==
  HasDeductible(RulesOf(config.services[serviceId].coverage[planId]))

\* The household in the order primary, spouse, children.
HouseholdInOrder ==
  peopleServices =
    (IF isNullOrUndefined(args.spouse) THEN << args.primary >>
                                       ELSE << args.primary, args.spouse >>)
    \o args.childrenArray

\* C11: within one plan evaluation the service events are taken in the
\* order: first pass (the with-deductible list) for every member, then the
\* second pass (the no-deductible list) for every member; within a pass
\* member by member in the order primary, spouse, children, and for each
\* member in list order.  No event of the household is skipped, and the
\* first pass takes exactly the services with a deductible.
C11_DeductibleServicesFirst ==
  [][ pc = "services" =>
        LET from == << loc.list, loc.i, loc.j >>
            to == << loc'.list, loc'.i, loc'.j >>
        IN  /\ HouseholdInOrder
            /\ pc' = "rule" =>
                  /\ LexLe(from, to)
                  /\ to \in UsedPositions
                  /\ service'.id = ServicesOrder(to[1])[to[3]]
                  /\ (to[1] = 1) <=> WithDeductible(service'.id)
                  /\ \A p \in UsedPositions :
                        LexLe(from, p) => LexLe(to, p)
            /\ pc' = "finish" =>
                  \A p \in UsedPositions : ~LexLe(from, p) ]_vars

\* The primary's service without deductible is up, after the spouse's
\* service with a deductible has been evaluated.
C11_SecondPassAfterSpouse ==
  /\ pc = "rule"
  /\ loc.list = 2
  /\ loc.i = 1
  /\ Len(peopleServices) >= 2
  /\ \E s \in DOMAIN peopleServices[2] :
       /\ WithDeductible(s)
       /\ JsGt(result.totalRawExpenses,
               RatTimes(service.count, service.cost))


\* ------------------------------------------------------------------------
\* Repeated calls

\* The call under way repeats the call before it.
Repeating == session.previous # << >>

\* The call has returned or thrown.
CallOver == pc \in { "done", "threw" }

\* C12: a call of calculate() with the arguments of the call made just
\* before it on the same configuration object gives the same outcome: the
\* same plan results field for field, or the same error, whatever calls
\* came earlier.
C12_SameCallSameResults ==
  CallOver /\ Repeating =>
    /\ args = session.previous[1].args
    /\ results = session.previous[1].results
    /\ error = session.previous[1].error

\* A third call that repeats the second, with expenses in its results.
C12_RepeatedAfterOtherCalls ==
  /\ pc = "done"
  /\ Repeating
  /\ session.calls = 3
  /\ \E i \in 1..Len(results) : JsGt(results[i].totalRawExpenses, 0)

\* ------------------------------------------------------------------------
\* The validator after the markup

\* C13: a configuration that checkConfig accepted before a calculate call
\* is still accepted by checkConfig when the call is over.
C13_AcceptedAfterCalculate ==
  CallOver /\ Accepts(session.configBefore) => Accepts(config)

\* ------------------------------------------------------------------------
\* The markup, once

\* C14: on one configuration object the markup is performed at most once;
\* every later maybeMarkupConfig, the one at the start of each calculate
\* included, performs nothing.
C14_MarkupAtMostOnce == session.markups <= 1

\* ------------------------------------------------------------------------
\* The configuration, once marked

\* C15: a calculate call on a configuration that is marked already leaves
\* the configuration as it was before the call.
C15_MarkedConfigUnchanged ==
  CallOver /\ GetB(session.configBefore, "isMarkedUp")
    => config = session.configBefore

\* ------------------------------------------------------------------------
\* The failures of calculate

\* The arguments of the call are the ones calculate() requires.
ArgumentsValid ==
  /\ Has(config.regions, args.regionId)
  /\ Has(config.statuses, args.statusId)
  /\ args.primary # Null
  /\ args.childrenArray # NotAnArray

\* No coverage level of the configuration accommodates the household.
NoLevelFits ==
  \A l \in DOMAIN config.coverageLevels :
    \/ args.spouse # Null /\ ~config.coverageLevels[l].spouse
    \/ config.coverageLevels[l].maxNumChildren < Len(args.childrenArray)

\* The call returned one result per plan of the region, in the order of
\* regions[regionId].plans.
ReturnedEveryPlan ==
  /\ pc = "done"
  /\ error = ""
  /\ [i \in 1..Len(results) |-> results[i].planId]
       = config.regions[args.regionId].plans

SortedUnique(report) ==
  \A i \in 1..(Len(report) - 1) : StrLess(report[i], report[i + 1])

\* C17: checkConfig ends in one of two ways, never by an exception of one
\* of its checks: it returns, or it throws one aggregated error with the
\* distinct issues in sorted order, leaving the error list empty.
C17_ReturnsOrThrowsAggregate ==
  validation.outcome # "none" =>
    \/ validation.outcome = "returned" /\ validation.report = << >>
    \/ /\ validation.outcome = "threw"
       /\ validation.report # << >>
       /\ SortedUnique(validation.report)
       /\ validation.errors = << >>

\* C18: an accepted configuration has, in every limit object of every plan,
\* a group "general" without categories, in every other group a non-empty
\* categories array of known category ids, and no category id in two
\* groups.
C18_AcceptedLimitGroups ==
  validation.outcome = "returned" =>
    \A p \in DOMAIN config.plans :
      \A o \in (DOMAIN config.plans[p]) \cap LimitObjectNames :
        LET obj == config.plans[p][o]
            custom == (DOMAIN obj) \ {"general"}
        IN  /\ Has(obj, "general")
            /\ ~Has(obj.general, "categories")
            /\ \A g \in custom :
                 /\ Has(obj[g], "categories")
                 /\ obj[g].categories # << >>
                 /\ Elements(obj[g].categories) \subseteq DOMAIN config.categories
            /\ \A g, h \in custom :
                 g # h => Elements(obj[g].categories)
                            \cap Elements(obj[h].categories) = {}

\* C19: on statuses and statusesOrder, checkObjectAndOrderContentsMatch
\* adds no error exactly when the order array holds only strings, names no
\* id twice and names the ids of the object and no other; and an accepted
\* configuration has every service id in exactly one category.
C19_OrderMatchesExactly ==
  validation.outcome # "none" =>
    /\ (checkObjectAndOrderContentsMatch(
          "statuses", << config.statuses >>,
          "statusesOrder", << config.statusesOrder >>) = << >>)
       <=> (/\ NotAString \notin Elements(config.statusesOrder)
            /\ \A i, j \in 1..Len(config.statusesOrder) :
                 i # j => config.statusesOrder[i] # config.statusesOrder[j]
            /\ Elements(config.statusesOrder) = DOMAIN config.statuses)
    /\ validation.outcome = "returned" =>
         \A s \in DOMAIN config.services :
           Cardinality({c \in DOMAIN config.categories :
                          s \in Elements(config.categories[c].orderedContents)})
             = 1

\* ------------------------------------------------------------------------
\* Scenario S6: the out-of-pocket group of the drugs under HMO_AZ

\* Plan HMO_AZ of the published configuration is being evaluated, or has
\* just been.
InHmoAz ==
  /\ pc \notin { "idle", "plan", "done", "threw" }
  /\ Has(config.plans, "HMO_AZ")
  /\ result.planId = "HMO_AZ"

\* The drug service is the one being evaluated.
OnDrugs == service.id = "drugsMailPref90DaySupply"

\* C20: under HMO_AZ no copay takes a person's or the family's oopmax_rx
\* available below zero, the amounts counted toward oopmax_rx stay within
\* 1000 for a person and 2000 for the family, and a drug copay is the full
\* copay of 50 unless the person's or the family's oopmax_rx is used up:
\* what is left of the general group does not bound it.
C20_DrugCopaysWithinOopmaxRx ==
  InHmoAz =>
    /\ \A i \in DOMAIN peopleAmounts :
         /\ peopleAmounts[i].oopsAvailableByGroup["oopmax_rx"] >= 0
         /\ peopleAmounts[i].oopsUsedByGroup["oopmax_rx"] <= 100000
    /\ familyAmounts.oopsAvailableByGroup["oopmax_rx"] >= 0
    /\ familyAmounts.oopsUsedByGroup["oopmax_rx"] <= 200000
    /\ pc = "afterCopay" /\ OnDrugs =>
         \/ loc.copay = 5000
         \/ peopleAmounts[loc.i].oopsAvailableByGroup["oopmax_rx"] = 0
         \/ familyAmounts.oopsAvailableByGroup["oopmax_rx"] = 0

\* C20, its case: the primary and the spouse have used up the family's
\* oopmax_rx of 2000, and the child's fill costs no copay.
C20_FamilyCapReached ==
  /\ InHmoAz
  /\ pc = "afterCopay"
  /\ OnDrugs
  /\ loc.i = 3
  /\ loc.copay = 0
  /\ familyAmounts.oopsUsedByGroup["oopmax_rx"] = 200000
  /\ familyAmounts.oopsAvailableByGroup["oopmax_rx"] = 0
  /\ peopleAmounts[3].oopsAvailableByGroup["oopmax_rx"] = 100000

\* ------------------------------------------------------------------------
\* The payroll contributions

\* The premium the configuration holds for the plan of a result: under the
\* region when the plan's costs are keyed by it, else under the coverage
\* level; and the adjustment the caller passed for the plan.
ConfiguredPremium(plan) ==
  LET costs == config.coverageLevelCostsPerPlan[plan]
      byLevel == IF args.regionId \in DOMAIN costs THEN costs[args.regionId]
                 ELSE costs
  IN  byLevel[coverageLevelId][args.statusId]

PremiumAdjustment(plan) ==
  IF args.amounts.premiumAdjustmentAmounts = Null THEN 0
  ELSE args.amounts.premiumAdjustmentAmounts[plan]

\* C21: in every plan result the payroll contributions are the configured
\* premium (0 for null) plus the caller's adjustment, or 0 when that sum is
\* negative.
C21_PayrollContributionsFloored ==
  \A k \in 1..Len(results) :
    LET plan == results[k].planId
        premium == IF ConfiguredPremium(plan) = NullAmount THEN 0
                   ELSE ConfiguredPremium(plan)
        total == premium + PremiumAdjustment(plan)
    IN  /\ results[k].totalAnnualPayrollContributions
             = (IF total > 0 THEN total ELSE 0)
        /\ results[k].totalAnnualPayrollContributions >= 0

\* C21, its case: a result for a null premium with a negative adjustment.
C21_NullPremiumNegativeAdjustment ==
  /\ pc = "done"
  /\ Len(results) = 1
  /\ ConfiguredPremium(results[1].planId) = NullAmount
  /\ PremiumAdjustment(results[1].planId) < 0
  /\ results[1].totalAnnualPayrollContributions = 0

\* ------------------------------------------------------------------------
\* The estimator's scenarios

\* Scenario S2: the published 2017 configuration, married filing jointly,
\* a primary income of 200000, no spouse income, no rollover and one cost
\* of 2600, on the FSA account type (named or defaulted).
ScenarioS2 ==
  /\ config = FSAE_CONFIG
  /\ args.accountTypeId \in { "", "FSA" }
  /\ args.filingStatusId = "marriedFilingJoint"
  /\ args.primaryAnnualIncome = 20000000
  /\ args.spouseAnnualIncome = 0
  /\ args.rolloverAmount = 0
  /\ args.costAmountOrAmounts = [amount |-> 260000]

\* C22: in scenario S2 calculate returns a suggested contribution of 2600,
\* federal income tax savings of 728 and FICA savings of 37.70: the primary
\* income is above the Social Security limit of 118500 before and after
\* the contribution, so only the Medicare rate applies (2600 x 0.0145).
C22_ScenarioS2 ==
  (pc = "done" /\ ScenarioS2) =>
    /\ result.suggestedContribution = 260000
    /\ result.federalIncomeTaxSavings = 72800
    /\ result.ficaTaxSavings = 3770

\* C22 as stated: FICA savings of 198.90, the contribution times the sum
\* of the Social Security and the Medicare rates.
C22_ScenarioS2AsStated ==
  (pc = "done" /\ ScenarioS2) =>
    /\ result.suggestedContribution = 260000
    /\ result.federalIncomeTaxSavings = 72800
    /\ result.ficaTaxSavings = 19890

C22_ScenarioS2Returned ==
  /\ pc = "done"
  /\ ScenarioS2
  /\ args.numberOfDependents = 0
  /\ result.ficaTaxSavings = FixRoundCents(FixMul(145, Dollars(2600)))

\* ------------------------------------------------------------------------
\* The contribution caps

\* A cap as configured: no cap when the property is absent.
ConfiguredCap(accountType, name) ==
  Dollars(IF Has(accountType, name) THEN accountType[name] ELSE Infinity)

\* The account type of the call just made, with no minimum contribution.
NoMinimumCallDone ==
  /\ pc = "done"
  /\ FsaeAccepts(config)
  /\ Get(config.accountTypes[loc.accountTypeId], "contributionMinimum")
       \in { Undefined, 0 }

\* C23: on a configuration the validator accepts, for an account type with
\* no minimum contribution, the suggested contribution plus the employer
\* match is at most the configured contributionMaximum, and the employer
\* match is at most the configured employerMaxMatchAmount, a configured cap
\* of 0 included.
C23_WithinConfiguredCaps ==
  NoMinimumCallDone =>
    LET accountType == config.accountTypes[loc.accountTypeId]
    IN  /\ FixLeq(FixAdd(loc.suggestedContribution,
                         loc.employerMatchingContribution),
                  ConfiguredCap(accountType, "contributionMaximum"))
        /\ FixLeq(loc.employerMatchingContribution,
                  ConfiguredCap(accountType, "employerMaxMatchAmount"))

\* ------------------------------------------------------------------------
\* The tax savings

\* I of the call: the primary income, plus the spouse's when filing
\* jointly.
TaxedIncome ==
  IF loc.filingStatusId = "marriedFilingJoint"
    THEN FixAdd(Cents(args.primaryAnnualIncome),
                Cents(args.spouseAnnualIncome))
    ELSE Cents(args.primaryAnnualIncome)

FederalTaxOn(income) ==
  calculateFederalIncomeTax(config, income, loc.filingStatusId,
                            args.numberOfDependents)

\* C24: the federal income tax savings are tax(I) - tax(max(0, I - s)) and
\* the FICA savings fica(P) - fica(max(0, P - s)), for the suggested
\* contribution s, the primary income P and I = P plus the spouse's income
\* when filing jointly: the income after the contribution is floored at 0.
C24_SavingsAreTaxDifferences ==
  pc = "done" =>
    LET s == loc.suggestedContribution
        P == Cents(args.primaryAnnualIncome)
    IN  /\ loc.federalIncomeTaxSavings =
             FixSub(FederalTaxOn(TaxedIncome),
                    FederalTaxOn(FixMax(Dollars(0), FixSub(TaxedIncome, s))))
        /\ loc.ficaTaxSavings =
             FixSub(calculateFicaPayrollTaxes(config, P),
                    calculateFicaPayrollTaxes(config,
                      FixMax(Dollars(0), FixSub(P, s))))
        /\ result.federalIncomeTaxSavings =
             FixRoundCents(loc.federalIncomeTaxSavings)
        /\ result.ficaTaxSavings = FixRoundCents(loc.ficaTaxSavings)

\* C24 as stated: the taxes after the contribution are those on I - s and
\* on P - s, also when the contribution is larger than the income.
C24_SavingsOnIncomeLessContribution ==
  pc = "done" =>
    LET s == loc.suggestedContribution
        P == Cents(args.primaryAnnualIncome)
    IN  /\ loc.federalIncomeTaxSavings =
             FixSub(FederalTaxOn(TaxedIncome),
                    FederalTaxOn(FixSub(TaxedIncome, s)))
        /\ loc.ficaTaxSavings =
             FixSub(calculateFicaPayrollTaxes(config, P),
                    calculateFicaPayrollTaxes(config, FixSub(P, s)))

\* A contribution of 2600 suggested on a joint income of 1000: the FICA
\* savings are the whole tax on the 1000.
C24_ContributionAboveIncome ==
  /\ pc = "done"
  /\ loc.filingStatusId = "marriedFilingJoint"
  /\ args.primaryAnnualIncome = 100000
  /\ args.spouseAnnualIncome = 0
  /\ loc.suggestedContribution = Dollars(2600)
  /\ FixLess(TaxedIncome, loc.suggestedContribution)
  /\ loc.ficaTaxSavings = calculateFicaPayrollTaxes(config, Dollars(1000))

\* C25: in every result calculate returns, the rounded totalTaxSavings is
\* the sum of the rounded federalIncomeTaxSavings and ficaTaxSavings, and
\* the rounded totalMatchAndTaxSavings is the rounded totalTaxSavings plus
\* the rounded employerMatchingContribution.
C25_RoundedFieldsAddUp ==
  pc = "done" =>
    /\ result.totalTaxSavings =
         result.federalIncomeTaxSavings + result.ficaTaxSavings
    /\ result.totalMatchAndTaxSavings =
         result.totalTaxSavings + result.employerMatchingContribution

\* ------------------------------------------------------------------------
\* The payroll taxes

\* min(income, socialSecurityLimit) * socialSecurityRate
\*   + income * medicareRate
FicaClosedForm(income) ==
  LET fica == config.ficaPayrollTaxes
  IN  FixAdd(FixMul(fica.socialSecurityRate,
                    FixMin(income, Dollars(fica.socialSecurityLimit))),
             FixMul(fica.medicareRate, income))

\* The incomes calculate() taxes: the primary income before and after the
\* contribution.
FicaIncomeBefore == Cents(args.primaryAnnualIncome)
FicaIncomeAfter ==
  FixMax(Dollars(0), FixSub(FicaIncomeBefore, loc.suggestedContribution))

OneCent == Cents(1)

\* C26: calculateFicaPayrollTaxes(income) is min(income, limit) * ssRate
\* + income * medicareRate for every income >= 0; it does not decrease
\* with the income; and it is continuous at the limit, a cent below the
\* limit costing ssRate + medicareRate of a cent less and a cent above
\* medicareRate of a cent more.
C26_FicaClosedForm ==
  pc = "done" =>
    LET fica == config.ficaPayrollTaxes
        limit == Dollars(fica.socialSecurityLimit)
        Tax(income) == calculateFicaPayrollTaxes(config, income)
    IN  /\ Tax(FicaIncomeBefore) = FicaClosedForm(FicaIncomeBefore)
        /\ Tax(FicaIncomeAfter) = FicaClosedForm(FicaIncomeAfter)
        /\ FixLeq(Tax(FicaIncomeAfter), Tax(FicaIncomeBefore))
        /\ FixLeq(Dollars(0), Tax(FicaIncomeAfter))
        /\ FixSub(Tax(limit), Tax(FixSub(limit, OneCent)))
             = FixMul(fica.socialSecurityRate + fica.medicareRate, OneCent)
        /\ FixSub(Tax(FixAdd(limit, OneCent)), Tax(limit))
             = FixMul(fica.medicareRate, OneCent)

\* A primary income at the limit and a contribution of 1000 that takes it
\* below: the savings are at both rates.
C26_ContributionCrossesLimit ==
  /\ pc = "done"
  /\ FicaIncomeBefore = Dollars(config.ficaPayrollTaxes.socialSecurityLimit)
  /\ loc.suggestedContribution = Dollars(1000)
  /\ FixLess(FicaIncomeAfter, FicaIncomeBefore)
  /\ result.ficaTaxSavings = 7650

\* ------------------------------------------------------------------------
\* The combined limits

\* A unit of the service is being evaluated.
InUnit ==
  pc \in { "beforeCopay", "copay", "afterCopay", "coinsurance", "reimburse" }

\* The reimbursement of the rule in progress that is not yet charged to the
\* combined limit id of person p (it is charged when the rule ends).
ReimbursedInProgress(p, id) ==
  IF (pc = "loop" \/ InUnit) /\ loc.i = p /\ loc.combinedLimitId = id
    THEN service.reimbursed ELSE 0

\* The plan's reimbursement so far under the combined limit id, for person
\* p and for the family.
PersonReimbursed(p, id) ==
  JsAdd(Get(peopleAmounts[p].combinedLimitsUsed, id),
        ReimbursedInProgress(p, id))
FamilyReimbursed(id) ==
  JsAdd(Get(familyAmounts.combinedLimitsUsed, id),
        IF pc = "loop" \/ InUnit THEN ReimbursedInProgress(loc.i, id) ELSE 0)

WithinCombinedLimits ==
  \A id \in DOMAIN config.combinedLimits :
    LET limit == config.combinedLimits[id]
    IN  /\ Has(limit, "personReimburseLimit") =>
             \A p \in 1..Len(peopleAmounts) :
               /\ IsFinite(PersonReimbursed(p, id))
               /\ PersonReimbursed(p, id) <= limit.personReimburseLimit
        /\ (Has(limit, "familyReimburseLimit") /\ pc \notin {"idle", "threw"}
            /\ Has(familyAmounts.combinedLimitsUsed, id)) =>
             /\ IsFinite(FamilyReimbursed(id))
             /\ FamilyReimbursed(id) <= limit.familyReimburseLimit

\* No unit is evaluated with nothing available under the combined limit,
\* and no later rule of a coverage array is begun once it is attained.
StopsAtCombinedLimit ==
  /\ InUnit => JsGt(loc.combinedLimitAvailable, 0)
  /\ (pc = "rule" /\ service.coverage > 1) => ~service.combinedLimitAttained

\* The step that ends a rule with nothing available under the combined
\* limit: the units left go to the expenses not covered at full cost, and
\* the service ends on this rule.
RemainingUnitsNotCovered ==
  (pc = "loop" /\ pc' # "loop" /\ pc' # "beforeCopay"
   /\ ~JsGt(loc.combinedLimitAvailable, 0)) =>
    /\ pc' = "endService"
    /\ service'.coverage = service.coverage
    /\ service'.combinedLimitAttained
    /\ service'.expensesNotCovered =
         JsAdd(service.expensesNotCovered,
               RatTimes(RatAdd(loc.notCoveredCount, loc.coveredCountLeft),
                        service.cost))

\* C27: the plan's reimbursement under a combined limit never exceeds the
\* personReimburseLimit for a person nor the familyReimburseLimit for the
\* family; once the smaller of the two available amounts is zero no
\* further unit is evaluated, the units left are charged to the expenses
\* not covered at full cost, and no later rule of the coverage array is
\* applied.
C27_CombinedLimitCapsReimbursement ==
  /\ [](WithinCombinedLimits /\ StopsAtCombinedLimit)
  /\ [][RemainingUnitsNotCovered]_vars

\* The first of two surgeries takes the person's whole limit of 250: the
\* second one is not covered (400, after the 70 left of the first), and the
\* second rule of the array is not applied.
C27_LimitAttainedInArray ==
  /\ pc = "endService"
  /\ service.id = "surgery"
  /\ service.combinedLimitAttained
  /\ service.coverage = 1
  /\ Len(config.services["surgery"].coverage[planId].array) = 2
  /\ service.reimbursed = 250
  /\ service.expensesNotCovered = 470
  /\ PersonReimbursed(loc.i, "cl") = 250

\* ------------------------------------------------------------------------
\* The single use cost maximum

\* What the member pays for the unit being evaluated.
UnitMemberCost == JsAdd(JsAdd(loc.deductible, loc.copay), loc.coinsurance)

\* C28: for a rule with a singleUseCostMax M, zero included, the deductible,
\* the copay and the coinsurance of a single covered unit together never
\* exceed M.
C28_UnitCostWithinSingleUseCostMax ==
  (pc = "reimburse" /\ Has(Coverage, "singleUseCostMax")) =>
    /\ IsFinite(UnitMemberCost)
    /\ UnitMemberCost <= Coverage.singleUseCostMax

\* ------------------------------------------------------------------------
\* The coverage arrays

\* A later rule of a coverage array is about to be evaluated; loc still
\* holds the counts of the rule before it.
AtLaterRule == pc = "rule" /\ service.coverage > 1

\* C29: each unit of a service event is evaluated as a covered unit under
\* at most one rule of the coverage array: the units handed to the next
\* rule are the units the rule before left (the ones it did not evaluate as
\* covered), so the units charged over all the rules are at most the count
\* of the event.
C29_NextRuleGetsUnitsLeft ==
  AtLaterRule =>
    /\ RatLe(service.count, loc.notCoveredCount)
    /\ RatLe(loc.notCoveredCount, service.count)

\* ------------------------------------------------------------------------
\* The service order lists

\* The services in category order, then in the order of the category's
\* orderedContents.
RECURSIVE ServicesInCategoryOrder(_)
ServicesInCategoryOrder(i) ==
  IF i > Len(config.categoriesOrder) THEN << >>
  ELSE config.categories[config.categoriesOrder[i]].orderedContents
         \o ServicesInCategoryOrder(i + 1)

ElementsOf(list) == { list[i] : i \in 1..Len(list) }

NoDuplicate(list) ==
  \A i, j \in 1..Len(list) : list[i] = list[j] => i = j

\* list keeps the order of the sequence all.
KeepsOrderOf(list, all) ==
  \A i, j \in 1..Len(list) :
    i < j => \E a, b \in 1..Len(all) :
               a < b /\ all[a] = list[i] /\ all[b] = list[j]

\* Some rule of the service's coverage for the plan has a deductible other
\* than "none".
SomeRuleWithDeductible(serviceId, plan) ==
  LET rules == RulesOf(config.services[serviceId].coverage[plan])
  IN  \E k \in 1..Len(rules) :
        ~(Has(rules[k], "deductible") /\ rules[k].deductible = "none")

\* C30: once the configuration is marked up, and after any number of
\* markups and calculate calls, for every plan the with-deductible and the
\* no-deductible lists are disjoint and without duplicates, hold together
\* exactly the services with a coverage for the plan, in category order
\* then orderedContents order, and a service is in the with-deductible
\* list exactly when some rule of its coverage has a deductible other than
\* "none".
C30_ServiceOrderLists ==
  Has(config, "servicesWithDeductibleOrderByPlan") =>
    \A k \in 1..Len(config.plansOrder) :
      LET plan == config.plansOrder[k]
          with == config.servicesWithDeductibleOrderByPlan[plan]
          without == config.servicesNoDeductibleOrderByPlan[plan]
          covered == { s \in DOMAIN config.services :
                         plan \in DOMAIN config.services[s].coverage }
      IN  /\ ElementsOf(with) \cap ElementsOf(without) = {}
          /\ NoDuplicate(with)
          /\ NoDuplicate(without)
          /\ ElementsOf(with) \cup ElementsOf(without) = covered
          /\ KeepsOrderOf(with, ServicesInCategoryOrder(1))
          /\ KeepsOrderOf(without, ServicesInCategoryOrder(1))
          /\ \A s \in covered :
               s \in ElementsOf(with) <=> SomeRuleWithDeductible(s, plan)

\* After a third call on the configuration with the coverage arrays: the
\* drug service, whose second rule has no deductible property, is the one
\* service with a deductible.
C30_ListsAfterThirdCall ==
  /\ session.calls = 3
  /\ session.markups = 3
  /\ config.plansOrder = << "P" >>
  /\ Len(config.services["rx"].coverage["P"].array) = 2
  /\ config.servicesWithDeductibleOrderByPlan["P"] = << "rx" >>
  /\ config.servicesNoDeductibleOrderByPlan["P"] = << "visit", "surgery" >>
  /\ ~Has(config.services["rx"].coverage["P"].array[2], "deductible")

=============================================================================
